---- MODULE Spec2Model ----
(***************************************************************************)
(* Model of diskomap: a map container bound to an append-only operation    *)
(* log (src/src/map_with_file.rs), the text and binary record codecs       *)
(* (src/src/text_format.rs, src/src/bin_format.rs), the background writer  *)
(* (src/src/file_worker.rs) and the secondary indexes (src/src/index.rs).  *)
(*                                                                         *)
(* A file is a sequence of bytes (0..255).  Keys and values are drawn from *)
(* two Rust instantiations of MapWithFile<Key, Value, _>:                  *)
(*   "u8"   Key = Value = u8   (JSON: decimal digits, bincode: one byte)   *)
(*   "unit" Key = Value = ()   (JSON: null,           bincode: no bytes)   *)
(* The hashing libraries (crc, rust-crypto) are external; they are         *)
(* modelled by small polynomial checksums that keep what the code relies   *)
(* on: the tag is a deterministic function of the bytes hashed, has the    *)
(* library's width, and changes whenever one byte of the input changes.    *)
(***************************************************************************)
EXTENDS Integers, Sequences, FiniteSets, TLC

\* ------------------------------------------------------------------ bounds
MaxOps == 2
MaxIndexes == 1
MaxKey == 0
MaxValue == 1
MaxThreads == 2
MaxCalls == 3
MaxBlockLen == 300
MaxDataLen == 3
MaxOwnerKey == 2

\* -------------------------------------------------------- program constants
U8_LEN == 0
U16_LEN == 1
U32_LEN == 2
INSERT == 0
REMOVE == 1
MIN_LINE_LEN == 4
CRC_LEN == 4
CRC_MIN_BLOCK_LEN == 6
SHA1_HASH_LEN == 20
SHA256_HASH_LEN == 32
\* largest value of u8, u16
U8_MAX == 255
U16_MAX == 65535
\* width in bytes of usize on a 64-bit target (len.to_le_bytes())
USIZE_BYTES == 8

\* ------------------------------------------------------------- characters
SP == 32
NL == 10
TAB == 9
CR == 13
\* "ins " and "rem "
INS == <<105, 110, 115, 32>>
REM == <<114, 101, 109, 32>>
LBRACKET == 91
RBRACKET == 93
COMMA == 44
NULL == <<110, 117, 108, 108>>

Keys(kv) == IF kv = "unit" THEN {0} ELSE 0..MaxKey
Values(kv) == IF kv = "unit" THEN {0} ELSE 0..MaxValue

\* ------------------------------------------------------------ byte helpers
Max(a, b) == IF a >= b THEN a ELSE b
Min(a, b) == IF a <= b THEN a ELSE b

\* s[from..to], empty when the range is empty (Rust &s[from-1..to])
Slice(s, from, to) == IF from > to THEN <<>> ELSE SubSeq(s, from, to)

RECURSIVE Flatten(_)
Flatten(ss) == IF ss = <<>> THEN <<>> ELSE Head(ss) \o Flatten(Tail(ss))

\* n.to_le_bytes() truncated or extended to width bytes (n < 2^31)
LeBytes(n, width) ==
    [i \in 1..width |->
        CASE i = 1 -> n % 256
          [] i = 2 -> (n \div 256) % 256
          [] i = 3 -> (n \div 65536) % 256
          [] i = 4 -> (n \div 16777216) % 256
          [] OTHER -> 0]

\* uN::from_le_bytes(bytes); saturates at 2^31 - 1, the largest integer here
RECURSIVE FromLeBytes(_)
FromLeBytes(bytes) ==
    IF bytes = <<>> THEN 0
    ELSE LET hi == FromLeBytes(Tail(bytes))
         IN IF hi >= 8388607 THEN 2147483647 ELSE Head(bytes) + 256 * hi

\* u32::to_string(): decimal digits, no leading zero
RECURSIVE to_string(_)
to_string(n) ==
    IF n < 10 THEN <<48 + n>> ELSE to_string(n \div 10) \o <<48 + (n % 10)>>

HexDigit(d) == IF d < 10 THEN 48 + d ELSE 87 + d

\* hex::encode(): two lower-case hex digits per byte
hex_encode(bytes) ==
    [i \in 1..2 * Len(bytes) |->
        IF i % 2 = 1 THEN HexDigit(bytes[(i + 1) \div 2] \div 16)
        ELSE HexDigit(bytes[i \div 2] % 16)]

\* position of the last occurrence of c in s, 0 when there is none (str::rfind)
rfind(s, c) ==
    LET hits == {i \in 1..Len(s) : s[i] = c}
    IN IF hits = {} THEN 0 ELSE CHOOSE i \in hits : \A j \in hits : j <= i

\* position of the first occurrence of c in s at or after from, 0 when none
find_from(s, c, from) ==
    LET hits == {i \in from..Len(s) : s[i] = c}
    IN IF hits = {} THEN 0 ELSE CHOOSE i \in hits : \A j \in hits : i <= j

IsWhitespace(c) == c \in {SP, NL, TAB, CR, 11, 12}

\* str::trim_end()
trim_end(s) ==
    LET keep == {i \in 1..Len(s) : ~IsWhitespace(s[i])}
    IN IF keep = {} THEN <<>>
       ELSE Slice(s, 1, CHOOSE i \in keep : \A j \in keep : j <= i)

\* ------------------------------------------------------ hashing (external)
\* b^e modulo prime, by squaring
RECURSIVE PowMod(_, _, _)
PowMod(b, e, prime) ==
    IF e = 0 THEN 1
    ELSE LET half == PowMod(b, e \div 2, prime)
             sq == (half * half) % prime
         IN IF e % 2 = 0 THEN sq ELSE (sq * b) % prime

\* sum of (bytes[i] + 1) * 257^(hi - i) for i in lo..hi, modulo prime
RECURSIVE PolyRange(_, _, _, _)
PolyRange(bytes, lo, hi, prime) ==
    IF lo > hi THEN 0
    ELSE IF lo = hi THEN bytes[lo] + 1
    ELSE LET mid == (lo + hi) \div 2
         IN (PolyRange(bytes, lo, mid, prime) * PowMod(257, hi - mid, prime)
             + PolyRange(bytes, mid + 1, hi, prime)) % prime

\* polynomial checksum modulo a prime below 2^15.5: one changed byte always
\* changes it, and so does a changed length
Poly(bytes, prime) ==
    (PowMod(257, Len(bytes), prime) + PolyRange(bytes, 1, Len(bytes), prime)) % prime

\* crc32::checksum_ieee(bytes): a u32
checksum_ieee(bytes) == Poly(bytes, 46337)

\* Sha1 digest: 20 bytes
Sha1(bytes) == LeBytes(Poly(bytes, 46327), SHA1_HASH_LEN)

\* Sha256 digest: 32 bytes
Sha256(bytes) == LeBytes(Poly(bytes, 46309), SHA256_HASH_LEN)

\* hash of (previous hash || hash of the record's data)
blockchain_sha1(prev_hash, data) == Sha1(prev_hash \o Sha1(data))

\* a tag that does not depend on the previous one
blockchain_sha256_unchained(prev_hash, data) == Sha256(data)

blockchain_sha256(prev_hash, data) == Sha256(prev_hash \o Sha256(data))

\* ------------------------------------------------------------- integrity
\* Option<Integrity>: kind "None" is Rust's None; prev is the chain seed
NoIntegrity == [kind |-> "None", prev |-> <<>>]
Crc32 == [kind |-> "Crc32", prev |-> <<>>]
Sha1Chain(seed) == [kind |-> "Sha1Chain", prev |-> seed]
Sha256Chain(seed) == [kind |-> "Sha256Chain", prev |-> seed]

\* ------------------------------------------------------------------ errors
\* LoadFileError / IntegrityError; line_num is 0 for the variants without index
NoError == [kind |-> "Ok", line_num |-> 0]
Error(kind, line_num) == [kind |-> kind, line_num |-> line_num]
IntegrityErrorKinds == {"NoExpectedHash", "Crc32Error", "Sha1ChainError", "Sha256ChainError"}

\* MapOperation<Key, Value>
Insert(key, value) == [op |-> "Insert", key |-> key, value |-> value]
Remove(key) == [op |-> "Remove", key |-> key, value |-> 0]

\* -------------------------------------------------------- hooks (cfg.format)
\* BeforeWrite*/AfterRead* callbacks: "None", or "Shift": a byte-wise cipher
\* that adds 1 to every byte but a final newline; its after-read inverse
\* subtracts 1 and fails on a byte it cannot have produced.  "ShiftBlock" is
\* the cipher for binary records: before-write is handed the record with its
\* length prefix and adds 1 to every byte after the two bytes of the prefix
\* of a short block, after-read is handed the block without the prefix and
\* subtracts 1 from every byte.
ShiftBytes(data, d) ==
    [i \in 1..Len(data) |->
        IF i = Len(data) /\ data[i] = NL THEN NL ELSE (data[i] + d + 256) % 256]

before_write_callback(cb, data) ==
    IF cb = "None" THEN data
    ELSE IF cb = "ShiftBlock"
    THEN [i \in 1..Len(data) |-> IF i <= 2 THEN data[i] ELSE (data[i] + 1) % 256]
    ELSE ShiftBytes(data, 1)

after_read_callback(cb, data) ==
    IF cb = "None" THEN [ok |-> TRUE, data |-> data]
    ELSE IF cb = "ShiftBlock"
    THEN [ok |-> TRUE, data |-> [i \in 1..Len(data) |-> (data[i] + 255) % 256]]
    ELSE IF \E i \in 1..Len(data) : data[i] = 0 THEN [ok |-> FALSE, data |-> data]
    ELSE [ok |-> TRUE, data |-> ShiftBytes(data, -1)]

\* ---------------------------------------------------- serde_json (external)
\* serde_json::to_string(&key)
json_key(kv, key) == IF kv = "unit" THEN NULL ELSE to_string(key)

\* serde_json::to_string(&(&key, &value))
json_key_value(kv, key, value) ==
    <<LBRACKET>> \o json_key(kv, key) \o <<COMMA>> \o json_key(kv, value) \o <<RBRACKET>>

\* first position at or after i that holds no JSON whitespace
SkipWs(s, i) ==
    LET rest == {j \in i..Len(s) : s[j] \notin {SP, NL, TAB, CR}}
    IN IF rest = {} THEN Len(s) + 1 ELSE CHOOSE j \in rest : \A l \in rest : j <= l

IsDigit(c) == c >= 48 /\ c <= 57

RECURSIVE DigitsValue(_)
DigitsValue(ds) ==
    IF ds = <<>> THEN 0
    ELSE Min(100000, 10 * DigitsValue(Slice(ds, 1, Len(ds) - 1)) + (ds[Len(ds)] - 48))

\* one scalar of type kv at position i: [ok, val, next]
ParseScalar(kv, s, i) ==
    IF kv = "unit"
    THEN IF Slice(s, i, Min(Len(s), i + 3)) = NULL
         THEN [ok |-> TRUE, val |-> 0, next |-> i + 4]
         ELSE [ok |-> FALSE, val |-> 0, next |-> i]
    ELSE LET nondigit == {j \in i..Len(s) : ~IsDigit(s[j])}
             stop == IF nondigit = {} THEN Len(s) + 1
                     ELSE CHOOSE j \in nondigit : \A l \in nondigit : j <= l
             end == IF i <= Len(s) /\ s[i] = 48 THEN Min(stop, i + 1) ELSE stop
             v == DigitsValue(Slice(s, i, end - 1))
         IN IF end = i \/ v > U8_MAX \/ (end <= Len(s) /\ s[end] \in {46, 69, 101})
            THEN [ok |-> FALSE, val |-> 0, next |-> i]
            ELSE [ok |-> TRUE, val |-> v, next |-> end]

\* serde_json::from_str::<Key>(s): [ok, key]
json_from_str_key(kv, s) ==
    LET k == ParseScalar(kv, s, SkipWs(s, 1))
    IN IF k.ok /\ SkipWs(s, k.next) = Len(s) + 1
       THEN [ok |-> TRUE, key |-> k.val]
       ELSE [ok |-> FALSE, key |-> 0]

\* serde_json::from_str::<(Key, Value)>(s): [ok, key, value]
json_from_str_key_value(kv, s) ==
    LET fail == [ok |-> FALSE, key |-> 0, value |-> 0]
        i1 == SkipWs(s, 1)
        k == ParseScalar(kv, s, SkipWs(s, i1 + 1))
        i2 == SkipWs(s, k.next)
        v == ParseScalar(kv, s, SkipWs(s, i2 + 1))
        i3 == SkipWs(s, v.next)
    IN IF i1 > Len(s) \/ s[i1] # LBRACKET THEN fail
       ELSE IF ~k.ok \/ i2 > Len(s) \/ s[i2] # COMMA THEN fail
       ELSE IF ~v.ok \/ i3 > Len(s) \/ s[i3] # RBRACKET THEN fail
       ELSE IF SkipWs(s, i3 + 1) # Len(s) + 1 THEN fail
       ELSE [ok |-> TRUE, key |-> k.val, value |-> v.val]

\* ------------------------------------------------------------- text codec
\* appends " <tag>" under the integrity mode, advances the chain, appends '\n'
post_process_text_file_line(line, integrity) ==
    CASE integrity.kind = "Crc32" ->
            [line |-> line \o <<SP>> \o to_string(checksum_ieee(line)) \o <<NL>>,
             integrity |-> integrity]
      [] integrity.kind = "Sha1Chain" ->
            LET hash == blockchain_sha1(integrity.prev, line)
            IN [line |-> line \o <<SP>> \o hex_encode(hash) \o <<NL>>,
                integrity |-> Sha1Chain(hash)]
      [] integrity.kind = "Sha256Chain" ->
            LET hash == blockchain_sha256(integrity.prev, line)
            IN [line |-> line \o <<SP>> \o hex_encode(hash) \o <<NL>>,
                integrity |-> Sha256Chain(hash)]
      [] OTHER -> [line |-> line \o <<NL>>, integrity |-> integrity]

text_file_line_of_insert(kv, key, value, integrity) ==
    post_process_text_file_line(INS \o json_key_value(kv, key, value), integrity)

file_line_of_remove(kv, key, integrity) ==
    post_process_text_file_line(REM \o json_key(kv, key), integrity)

\* checks the tag of one line: [err, line_data, integrity]
process_line_integrity(line, integrity, line_num) ==
    LET data_index == rfind(line, SP)
        line_data == Slice(line, 1, data_index - 1)
        hash_in_file == trim_end(Slice(line, data_index + 1, Len(line)))
        fail(kind) == [err |-> Error(kind, line_num), line_data |-> line_data,
                       integrity |-> integrity]
        pass(next) == [err |-> NoError, line_data |-> line_data, integrity |-> next]
    IN IF data_index = 0 THEN fail("NoExpectedHash")
       ELSE CASE integrity.kind = "Crc32" ->
                    IF to_string(checksum_ieee(line_data)) # hash_in_file
                    THEN fail("Crc32Error") ELSE pass(integrity)
              [] integrity.kind = "Sha1Chain" ->
                    LET current_hash == blockchain_sha1(integrity.prev, line_data)
                    IN IF hex_encode(current_hash) # hash_in_file
                       THEN fail("Sha1ChainError") ELSE pass(Sha1Chain(current_hash))
              [] integrity.kind = "Sha256Chain" ->
                    LET current_hash == blockchain_sha256(integrity.prev, line_data)
                    IN IF hex_encode(current_hash) # hash_in_file
                       THEN fail("Sha256ChainError") ELSE pass(Sha256Chain(current_hash))

\* Result of a loader: the error (or Ok), the operations delivered to the
\* processed_callback in order, and the integrity state left behind.
LoadResult(err, ops, integrity) == [err |-> err, ops |-> ops, integrity |-> integrity]

\* The outcome of one turn of a loader loop: the error or Ok, the operation
\* handed to processed_callback (if any), the integrity state and the byte
\* position of the next record.
Turn(err, ops, integrity, next) ==
    [err |-> err, ops |-> ops, integrity |-> integrity, next |-> next]

\* a loader that goes on when processed_callback returns Err(())
deliver_and_go_on(op, integrity, cancel_at, record_num, next) ==
    Turn(NoError, <<op>>, integrity, next)

\* processed_callback(op) on record record_num; cancel_at is the record at
\* which the callback returns Err(()) (0: never)
deliver(op, integrity, cancel_at, record_num, next) ==
    IF cancel_at = record_num
    THEN Turn(Error("Interrupted", 0), <<op>>, integrity, next)
    ELSE Turn(NoError, <<op>>, integrity, next)

\* the "ins " arm of load_from_text_file, kval being serde_json's result
text_line_insert(kval, integrity, cancel_at, line_num, next) ==
    IF ~kval.ok
    THEN Turn(Error("DeserializeJsonError", line_num), <<>>, integrity, next)
    ELSE deliver(Insert(kval.key, kval.value), integrity, cancel_at, line_num, next)

\* the "rem " arm of load_from_text_file, k being serde_json's result
text_line_remove(k, integrity, cancel_at, line_num, next) ==
    IF ~k.ok
    THEN Turn(Error("DeserializeJsonError", line_num), <<>>, integrity, next)
    ELSE deliver(Remove(k.key), integrity, cancel_at, line_num, next)

\* the match on &line_data[..4]; the slice panics on less than 4 bytes
text_line_operation(kv, line_data, integrity, cancel_at, line_num, next) ==
    IF Len(line_data) < 4 THEN Turn(Error("Panic", line_num), <<>>, integrity, next)
    ELSE IF Slice(line_data, 1, 4) = INS
    THEN text_line_insert(json_from_str_key_value(kv, Slice(line_data, 5, Len(line_data))),
                          integrity, cancel_at, line_num, next)
    ELSE IF Slice(line_data, 1, 4) = REM
    THEN text_line_remove(json_from_str_key(kv, Slice(line_data, 5, Len(line_data))),
                          integrity, cancel_at, line_num, next)
    ELSE Turn(Error("NoLineDefinition", line_num), <<>>, integrity, next)

\* after process_line_integrity: its error, or the operation of the line
text_line_checked(kv, checked, integrity, cancel_at, line_num, next) ==
    IF checked.err # NoError THEN Turn(checked.err, <<>>, integrity, next)
    ELSE text_line_operation(kv, checked.line_data, checked.integrity, cancel_at,
                             line_num, next)

\* The checks on a line read: read_line fails on bytes that are no UTF-8
\* (here: any byte above 127), then the after-read hook, the final newline,
\* the minimal length and the integrity tag.
text_line_read(kv, raw, hooked, integrity, cancel_at, line_num, next) ==
    IF \E i \in 1..Len(raw) : raw[i] >= 128
    THEN Turn(Error("FileError", 0), <<>>, integrity, next)
    ELSE IF ~hooked.ok
    THEN Turn(Error("InterruptedWithBeforeReadCallback", 0), <<>>, integrity, next)
    ELSE IF Len(hooked.data) = 0 \/ hooked.data[Len(hooked.data)] # NL
    THEN Turn(Error("LastLineWithoutEndLine", line_num), <<>>, integrity, next)
    ELSE IF Len(hooked.data) < MIN_LINE_LEN
    THEN Turn(Error("FileLineLengthLessThenMinimum", line_num), <<>>, integrity, next)
    ELSE text_line_checked(kv,
             IF integrity.kind # "None"
             THEN process_line_integrity(hooked.data, integrity, line_num)
             ELSE [err |-> NoError, line_data |-> hooked.data, integrity |-> integrity],
             integrity, cancel_at, line_num, next)

\* a reader that supplies the newline an unterminated last line lacks
read_line_terminating(kv, raw, integrity, after_read, cancel_at, line_num, next) ==
    LET line == IF raw[Len(raw)] = NL THEN raw ELSE raw \o <<NL>>
    IN text_line_read(kv, line, after_read_callback(after_read, line), integrity,
                      cancel_at, line_num, next)

\* read_line: the bytes up to and including the next newline, or up to the
\* end of the file
read_line(kv, raw, integrity, after_read, cancel_at, line_num, next) ==
    text_line_read(kv, raw, after_read_callback(after_read, raw), integrity, cancel_at,
                   line_num, next)

\* position of the last byte of the line that starts at pos
line_end(file, pos) ==
    LET nl == find_from(file, NL, pos)
    IN IF nl = 0 THEN Len(file) ELSE nl

\* one turn of the loop of load_from_text_file on the line from pos to end
load_text_line(kv, file, pos, end, integrity, after_read, cancel_at, line_num) ==
    read_line(kv, Slice(file, pos, end), integrity, after_read, cancel_at, line_num,
              end + 1)

\* The loop of load_from_text_file from byte position pos on.
RECURSIVE TextLoop(_, _, _, _, _, _, _, _)
RECURSIVE TextLoopTurn(_, _, _, _, _, _, _)
TextLoopTurn(kv, file, after_read, cancel_at, line_num, ops, turn) ==
    IF turn.err # NoError
    THEN LoadResult(turn.err, ops \o turn.ops, turn.integrity)
    ELSE TextLoop(kv, file, turn.next, turn.integrity, after_read, cancel_at,
                  line_num + 1, ops \o turn.ops)

TextLoop(kv, file, pos, integrity, after_read, cancel_at, line_num, ops) ==
    IF pos > Len(file) THEN LoadResult(NoError, ops, integrity)
    ELSE TextLoopTurn(kv, file, after_read, cancel_at, line_num, ops,
             load_text_line(kv, file, pos, line_end(file, pos), integrity, after_read,
                            cancel_at, line_num))

load_from_text_file(kv, file, integrity, after_read, cancel_at) ==
    TextLoop(kv, file, 1, integrity, after_read, cancel_at, 1, <<>>)

\* ------------------------------------------------------ bincode2 (external)
\* bincode2::serialize(&key): a u8 is one byte, () is no byte
bincode_key(kv, key) == IF kv = "unit" THEN <<>> ELSE <<key>>

\* bincode2::serialize(&(&key, &value))
bincode_key_value(kv, key, value) == bincode_key(kv, key) \o bincode_key(kv, value)

\* bincode2::deserialize::<Key>(bytes): [ok, key]; trailing bytes are ignored
bincode_deserialize_key(kv, bytes) ==
    IF kv = "unit" THEN [ok |-> TRUE, key |-> 0]
    ELSE IF Len(bytes) < 1 THEN [ok |-> FALSE, key |-> 0]
    ELSE [ok |-> TRUE, key |-> bytes[1]]

\* bincode2::deserialize::<(Key, Value)>(bytes): [ok, key, value]
bincode_deserialize_key_value(kv, bytes) ==
    IF kv = "unit" THEN [ok |-> TRUE, key |-> 0, value |-> 0]
    ELSE IF Len(bytes) < 2 THEN [ok |-> FALSE, key |-> 0, value |-> 0]
    ELSE [ok |-> TRUE, key |-> bytes[1], value |-> bytes[2]]

\* ----------------------------------------------------------- binary codec
\* the length prefix: class byte, then len.to_le_bytes() of a usize
bin_block_len(len) ==
    IF len <= U8_MAX THEN <<U8_LEN, len % 256>>
    ELSE IF len <= U16_MAX THEN <<U16_LEN>> \o LeBytes(len, USIZE_BYTES)
    ELSE <<U32_LEN>> \o LeBytes(len, USIZE_BYTES)

\* appends the tag under the integrity mode and advances the chain
post_process_file_bin_block(bin_block, integrity) ==
    CASE integrity.kind = "Crc32" ->
            [block |-> bin_block \o LeBytes(checksum_ieee(bin_block), CRC_LEN),
             integrity |-> integrity]
      [] integrity.kind = "Sha1Chain" ->
            LET hash == blockchain_sha1(integrity.prev, bin_block)
            IN [block |-> bin_block \o hash, integrity |-> Sha1Chain(hash)]
      [] integrity.kind = "Sha256Chain" ->
            LET hash == blockchain_sha256(integrity.prev, bin_block)
            IN [block |-> bin_block \o hash, integrity |-> Sha256Chain(hash)]
      [] OTHER -> [block |-> bin_block, integrity |-> integrity]

bin_file_block_of_insert(kv, key, value, integrity) ==
    LET data == post_process_file_bin_block(<<INSERT>> \o bincode_key_value(kv, key, value),
                                            integrity)
    IN [line |-> bin_block_len(Len(data.block)) \o data.block, integrity |-> data.integrity]

bin_file_block_of_remove(kv, key, integrity) ==
    LET data == post_process_file_bin_block(<<REMOVE>> \o bincode_key(kv, key), integrity)
    IN [line |-> bin_block_len(Len(data.block)) \o data.block, integrity |-> data.integrity]

\* reads the length prefix at pos: [err, len, next]; len = 0 at end of file.
\* read_exact past the end of the file is an io::Error (FileError).
read_bin_block_len(file, pos) ==
    IF pos > Len(file) THEN [err |-> NoError, len |-> 0, next |-> pos]
    ELSE
    LET len_of_len == file[pos]
        width == IF len_of_len = U8_LEN THEN 1
                 ELSE IF len_of_len = U16_LEN THEN 2
                 ELSE IF len_of_len = U32_LEN THEN 4
                 ELSE 8
        len == FromLeBytes(Slice(file, pos + 1, pos + width))
    IN IF pos + width > Len(file)
       THEN [err |-> Error("FileError", 0), len |-> 0, next |-> pos]
       ELSE IF len = 0
       THEN [err |-> Error("WrongMinBinBlockLen", 0), len |-> 0, next |-> pos]
       ELSE [err |-> NoError, len |-> len, next |-> pos + width + 1]

\* checks the tag at the end of one block: [err, data, integrity]
process_block_integrity(data_block, integrity, block_num) ==
    LET n == Len(data_block)
        fail(kind) == [err |-> Error(kind, block_num), data |-> data_block,
                       integrity |-> integrity]
    IN CASE integrity.kind = "Crc32" ->
              IF n < CRC_MIN_BLOCK_LEN THEN fail("Crc32Error")
              ELSE IF checksum_ieee(Slice(data_block, 1, n - CRC_LEN))
                        # FromLeBytes(Slice(data_block, n - CRC_LEN + 1, n))
              THEN fail("Crc32Error")
              ELSE [err |-> NoError, data |-> Slice(data_block, 1, n - CRC_LEN),
                    integrity |-> integrity]
         [] integrity.kind = "Sha1Chain" ->
              IF n < SHA1_HASH_LEN + 1 THEN fail("Sha1ChainError")
              ELSE LET data == Slice(data_block, 1, n - SHA1_HASH_LEN)
                       current_hash == blockchain_sha1(integrity.prev, data)
                   IN IF current_hash # Slice(data_block, n - SHA1_HASH_LEN + 1, n)
                      THEN fail("Sha1ChainError")
                      ELSE [err |-> NoError, data |-> data,
                            integrity |-> Sha1Chain(current_hash)]
         [] integrity.kind = "Sha256Chain" ->
              IF n < SHA256_HASH_LEN + 1 THEN fail("Sha1ChainError")
              ELSE LET data == Slice(data_block, 1, n - SHA256_HASH_LEN)
                       current_hash == blockchain_sha256(integrity.prev, data)
                   IN IF current_hash # Slice(data_block, n - SHA256_HASH_LEN + 1, n)
                      THEN fail("Sha1ChainError")
                      ELSE [err |-> NoError, data |-> data,
                            integrity |-> Sha256Chain(current_hash)]

\* the INSERT arm of load_from_bin_file, kval being bincode's result
bin_block_insert(kval, integrity, cancel_at, block_num, next) ==
    IF ~kval.ok
    THEN Turn(Error("DeserializeBincodeError", block_num), <<>>, integrity, next)
    ELSE deliver(Insert(kval.key, kval.value), integrity, cancel_at, block_num, next)

\* the REMOVE arm of load_from_bin_file, k being bincode's result
bin_block_remove(k, integrity, cancel_at, block_num, next) ==
    IF ~k.ok
    THEN Turn(Error("DeserializeBincodeError", block_num), <<>>, integrity, next)
    ELSE deliver(Remove(k.key), integrity, cancel_at, block_num, next)

\* the match on data_block[0]: any other first byte is passed over
bin_block_operation(kv, data_block, integrity, cancel_at, block_num, next) ==
    IF data_block[1] = INSERT
    THEN bin_block_insert(bincode_deserialize_key_value(kv, Slice(data_block, 2, Len(data_block))),
                          integrity, cancel_at, block_num, next)
    ELSE IF data_block[1] = REMOVE
    THEN bin_block_remove(bincode_deserialize_key(kv, Slice(data_block, 2, Len(data_block))),
                          integrity, cancel_at, block_num, next)
    ELSE Turn(NoError, <<>>, integrity, next)

\* after process_block_integrity: its error, or the operation of the block
bin_block_checked(kv, checked, integrity, cancel_at, block_num, next) ==
    IF checked.err # NoError THEN Turn(checked.err, <<>>, integrity, next)
    ELSE bin_block_operation(kv, checked.data, checked.integrity, cancel_at, block_num,
                             next)

\* after read_exact of the block: the after-read hook, then the integrity tag
bin_block_read(kv, hooked, integrity, cancel_at, block_num, next) ==
    IF ~hooked.ok
    THEN Turn(Error("InterruptedWithBeforeReadCallback", 0), <<>>, integrity, next)
    ELSE bin_block_checked(kv,
             IF integrity.kind # "None"
             THEN process_block_integrity(hooked.data, integrity, block_num)
             ELSE [err |-> NoError, data |-> hooked.data, integrity |-> integrity],
             integrity, cancel_at, block_num, next)

\* One turn of the loop of load_from_bin_file, head being the length prefix
\* read at the start of the block.  A length of 0 (end of file) ends the loop
\* without error: next is 0.  read_exact past the end of the file is an
\* io::Error.
load_bin_block(kv, file, head, integrity, after_read, cancel_at, block_num) ==
    IF head.err # NoError THEN Turn(head.err, <<>>, integrity, 0)
    ELSE IF head.len = 0 THEN Turn(NoError, <<>>, integrity, 0)
    ELSE IF head.len > Len(file) - head.next + 1
    THEN Turn(Error("FileError", 0), <<>>, integrity, 0)
    ELSE bin_block_read(kv,
             after_read_callback(after_read, Slice(file, head.next, head.next + head.len - 1)),
             integrity, cancel_at, block_num, head.next + head.len)

\* The loop of load_from_bin_file from byte position pos on.
RECURSIVE BinLoop(_, _, _, _, _, _, _, _)
RECURSIVE BinLoopTurn(_, _, _, _, _, _, _)
BinLoopTurn(kv, file, after_read, cancel_at, block_num, ops, turn) ==
    IF turn.err # NoError \/ turn.next = 0
    THEN LoadResult(turn.err, ops \o turn.ops, turn.integrity)
    ELSE BinLoop(kv, file, turn.next, turn.integrity, after_read, cancel_at,
                 block_num + 1, ops \o turn.ops)

BinLoop(kv, file, pos, integrity, after_read, cancel_at, block_num, ops) ==
    BinLoopTurn(kv, file, after_read, cancel_at, block_num, ops,
        load_bin_block(kv, file, read_bin_block_len(file, pos), integrity, after_read,
                       cancel_at, block_num))

load_from_bin_file(kv, file, integrity, after_read, cancel_at) ==
    BinLoop(kv, file, 1, integrity, after_read, cancel_at, 1, <<>>)

\* ----------------------------------------------------------- map container
\* the container is a function from the keys present to their values
EmptyMap == [k \in {} |-> 0]

\* MapTrait::insert
map_insert(m, key, value) == [k \in DOMAIN m \cup {key} |-> IF k = key THEN value ELSE m[k]]

\* MapTrait::remove
map_remove(m, key) == [k \in DOMAIN m \ {key} |-> m[k]]

\* the closure of map_from_text_file / map_from_bin_file applied to each operation
RECURSIVE ApplyOps(_, _)
ApplyOps(m, ops) ==
    IF ops = <<>> THEN m
    ELSE ApplyOps(IF Head(ops).op = "Insert"
                  THEN map_insert(m, Head(ops).key, Head(ops).value)
                  ELSE map_remove(m, Head(ops).key),
                  Tail(ops))

\* [err, map, integrity]; the map is returned only when err is Ok
loaded_map(r) ==
    [err |-> r.err, map |-> ApplyOps(EmptyMap, r.ops), integrity |-> r.integrity]

map_from_text_file(kv, file, integrity, read_callback) ==
    loaded_map(load_from_text_file(kv, file, integrity, read_callback, 0))

map_from_bin_file(kv, file, integrity, read_callback) ==
    loaded_map(load_from_bin_file(kv, file, integrity, read_callback, 0))

\* ----------------------------------------------------------------- index
\* make_index_key_callback: the index key of a value (here the value itself)
make_index_key_callback(value) == value

\* Option<Value>
None == [some |-> FALSE, v |-> 0]
Some(v) == [some |-> TRUE, v |-> v]

\* MapTrait::get on the container
map_get(m, key) == IF key \in DOMAIN m THEN Some(m[key]) ELSE None

\* An index map is a function from the index keys that have a bucket to the
\* bucket, a set of owner keys (BTreeSet<OwnerKey>).

\* Index::on_insert
on_insert(index_map, btree_key, value, old_value) ==
    LET index_key == make_index_key_callback(value)
        old_value_index_key == make_index_key_callback(old_value.v)
        map1 == IF old_value.some /\ old_value_index_key \in DOMAIN index_map
                THEN [index_map EXCEPT ![old_value_index_key] = @ \ {btree_key}]
                ELSE index_map
    IN IF index_key \in DOMAIN map1
       THEN [map1 EXCEPT ![index_key] = @ \cup {btree_key}]
       ELSE [ik \in DOMAIN map1 \cup {index_key} |->
                IF ik = index_key THEN {btree_key} ELSE map1[ik]]

\* Index::on_remove
on_remove(index_map, key, value) ==
    LET index_key == make_index_key_callback(value)
    IN IF index_key \in DOMAIN index_map
       THEN [index_map EXCEPT ![index_key] = @ \ {key}]
       ELSE index_map

\* the for_each pass of MapWithFile::create_index over the live map
build_index(m) ==
    LET iks == {make_index_key_callback(m[k]) : k \in DOMAIN m}
    IN [ik \in iks |-> {k \in DOMAIN m : make_index_key_callback(m[k]) = ik}]

\* insert that leaves the indexes as they were
update_index_when_insert_skipped(idxs, key, value, old_value) == idxs

\* MapWithFile::update_index_when_insert
update_index_when_insert(idxs, key, value, old_value) ==
    [i \in 1..Len(idxs) |-> on_insert(idxs[i], key, value, old_value)]

\* MapWithFile::update_index_when_remove
update_index_when_remove(idxs, key, old_value) ==
    [i \in 1..Len(idxs) |-> on_remove(idxs[i], key, old_value)]

\* Index::get: the owner keys of a bucket, empty when there is no bucket
index_get(index_map, ik) == IF ik \in DOMAIN index_map THEN index_map[ik] ELSE {}

\* BTreeSet::iter(): the elements in ascending order
RECURSIVE iter(_)
iter(set) ==
    IF set = {} THEN <<>>
    ELSE LET least == CHOOSE k \in set : \A j \in set : k <= j
         IN <<least>> \o iter(set \ {least})

\* an iteration that starts from the greatest element
RECURSIVE iter_descending(_)
iter_descending(set) ==
    IF set = {} THEN <<>>
    ELSE LET greatest == CHOOSE k \in set : \A j \in set : k >= j
         IN <<greatest>> \o iter_descending(set \ {greatest})

\* a get that lists the bucket from its greatest key down
index_get_vec_descending(index_map, key) ==
    IF key \in DOMAIN index_map THEN iter_descending(index_map[key]) ELSE <<>>

\* Index::get as it returns: (*btree_keys).iter().cloned().collect(), or
\* the empty vec when the map has no such bucket
index_get_vec(index_map, key) ==
    IF key \in DOMAIN index_map THEN iter(index_map[key]) ELSE <<>>

\* ---------------------------------------------------------- writer tasks
WriteTask(data) == [type |-> "Write", data |-> data]
StopTask == [type |-> "Stop", data |-> <<>>]

\* FileWorker::write_string / write_bytes: tasks_sender.send(task)
write_bytes(q, data) == Append(q, WriteTask(data))

\* a drop that sends nothing
send_stop_missing(q) == q

\* Drop for FileWorker: tasks_sender.send(FileWorkerTask::Stop)
send_stop(q) == Append(q, StopTask)

\* a channel that hands out the newest task first
recv_newest(q) == [task |-> q[Len(q)], rest |-> SubSeq(q, 1, Len(q) - 1)]

\* task_receiver.recv(): takes the oldest task out of the channel
recv(q) == [task |-> Head(q), rest |-> Tail(q)]

\* a write that appends the bytes twice
write_all_twice(f, bytes) == f \o bytes \o bytes

\* file.write_all(bytes) on a file opened with append(true)
write_all(f, bytes) == f \o bytes

\* ------------------------------------------------------------------ state
VARIABLES
    cfg,        \* the Cfg the user opens the path with, and the Key/Value type
    phase,      \* "Open", "Dropping" (drop is joining the worker), "Closed"
    map,        \* MapWithFile.map
    integrity,  \* MapWithFile.cfg.integrity: mode and current chain hash
    indexes,    \* MapWithFile.indexes: the index maps, in creation order
    queue,      \* the channel between tasks_sender and task_receiver
    worker,     \* the writer thread: "Running" or "Exited"
    file,       \* the bytes of the log file
    locked,     \* the exclusive lock on the log file is held
    last,       \* the call that returned last and its result
    history,    \* every record handed to the writer: operation and payload
    ideal,      \* the map the calls made so far denote
    calls,      \* number of insert/remove calls made
    expected_records, \* number of calls that the contract says append a record
    tampered,   \* the record a byte of which was altered on disk, 0 for none
    other,      \* a second open_or_create on the same path: where it stands
    write_error_callback, \* Cfg.write_error_callback: "None", "Callback", "Panics"
    failed,     \* the records whose write_all returned an error, in order
    sink_calls, \* the records whose error was handed to the callback, in order
    logged,     \* what the worker printed with dbg!, in order
    manipulation, \* what was done to the closed log: "none", "delete", "swap", "seed"
    threads,    \* the callers of a shared BTree: position and pending call
    applied,    \* the operations in the order they changed the shared map
    conv,       \* the last convert call: its inputs, its result, the file written
    compacted,  \* the last remove_history call: the map it read, the file it left
    probe       \* a function of the codec called on its own: arguments, result

\* the state that only the second opener, the failing writes, the edited
\* logs and the shared BTree touch
\* the state that only the converter and the compaction touch
aux2 == <<conv, compacted, probe>>

aux == <<other, write_error_callback, failed, sink_calls, logged, manipulation,
         threads, applied, aux2>>

vars == <<cfg, phase, map, integrity, indexes, queue, worker, file, locked,
          last, history, ideal, calls, expected_records, tampered, other,
          write_error_callback, failed, sink_calls, logged, manipulation,
          threads, applied, conv, compacted, probe>>

Formats == {"Text", "Bin"}
KeyValueTypes == {"u8", "unit"}
Seed(n) == LeBytes(0, n)
Integrities == {NoIntegrity, Crc32, Sha1Chain(Seed(SHA1_HASH_LEN)), Sha256Chain(Seed(SHA256_HASH_LEN))}

Call(op, key, value, result, old) ==
    [op |-> op, key |-> key, value |-> value, result |-> result, old |-> old]

\* the payloads of the Write tasks of a queue, in order
Payloads(q) ==
    LET w == SelectSeq(q, LAMBDA t : t.type = "Write")
    IN [i \in 1..Len(w) |-> w[i].data]

HistoryPayloads == [i \in 1..Len(history) |-> history[i].payload]
HistoryOps == [i \in 1..Len(history) |-> history[i].op]

\* convert was not called
NoConvert == [called |-> FALSE]

\* the callers that share one BTree
Threads == 1..MaxThreads

\* a caller that is in no call
IdleThread == [pc |-> "idle", op |-> "none", key |-> 0, value |-> 0, seq |-> 0]

\* nobody else opens the path, no write has failed, the log was not edited,
\* no BTree call is under way
InitAux ==
    /\ other = "Idle"
    /\ failed = <<>>
    /\ sink_calls = <<>>
    /\ logged = <<>>
    /\ manipulation = "none"
    /\ threads = [t \in Threads |-> IdleThread]
    /\ applied = <<>>
    /\ conv = NoConvert
    /\ compacted = [done |-> FALSE]
    /\ probe = [fn |-> "none"]

\* The state after the first open_or_create(path, cfg) on a path that holds
\* no file: empty map, no index, the writer running on the locked empty file.
InitWrapper ==
    /\ cfg \in [kv : KeyValueTypes, format : Formats, before_write : {"None"},
                after_read : {"None"}, integrity : Integrities]
    /\ phase = "Open"
    /\ map = EmptyMap
    /\ integrity = cfg.integrity
    /\ indexes = <<>>
    /\ queue = <<>>
    /\ worker = "Running"
    /\ file = <<>>
    /\ locked = TRUE
    /\ last = Call("open", 0, 0, NoError, None)
    /\ history = <<>>
    /\ ideal = EmptyMap
    /\ calls = 0
    /\ expected_records = 0
    /\ tampered = 0

\* the same with Cfg::default(): no write_error_callback
Init ==
    /\ InitWrapper
    /\ InitAux
    /\ write_error_callback = "None"

\* the record of an operation under the configured format: [line, integrity]
EncodeInsert(key, value) ==
    IF cfg.format = "Text"
    THEN text_file_line_of_insert(cfg.kv, key, value, integrity)
    ELSE bin_file_block_of_insert(cfg.kv, key, value, integrity)

EncodeRemove(key) ==
    IF cfg.format = "Text"
    THEN file_line_of_remove(cfg.kv, key, integrity)
    ELSE bin_file_block_of_remove(cfg.kv, key, integrity)

\* the before-write hook as insert applies it: once on a text line, twice
\* on a binary block
HookInsert(data) ==
    IF cfg.format = "Text"
    THEN before_write_callback(cfg.before_write, data)
    ELSE before_write_callback(cfg.before_write,
                               before_write_callback(cfg.before_write, data))

\* MapWithFile::insert.  ser_ok: whether serializing (key, value) succeeds.
insert(key, value, ser_ok) ==
    /\ UNCHANGED aux
    /\ phase = "Open"
    /\ calls < MaxOps
    /\ calls' = calls + 1
    /\ IF ~ser_ok
       THEN /\ last' = Call("insert", key, value, "Err", None)
            /\ UNCHANGED <<map, integrity, indexes, queue, history, ideal,
                           expected_records>>
       ELSE LET rec == EncodeInsert(key, value)
                old_value == map_get(map, key)
                payload == HookInsert(rec.line)
            IN /\ integrity' = rec.integrity
               /\ map' = map_insert(map, key, value)
               /\ queue' = write_bytes(queue, payload)
               /\ indexes' = update_index_when_insert(indexes, key, value, old_value)
               /\ last' = Call("insert", key, value, "Ok", old_value)
               /\ history' = Append(history, [op |-> Insert(key, value), payload |-> payload])
               /\ ideal' = map_insert(ideal, key, value)
               /\ expected_records' = expected_records + 1
    /\ UNCHANGED <<cfg, phase, worker, file, locked, tampered>>

\* MapWithFile::remove.  ser_ok: whether serializing the key succeeds.
\* The key is taken out of the container before the record is encoded.
remove(key, ser_ok) ==
    /\ UNCHANGED aux
    /\ phase = "Open"
    /\ calls < MaxOps
    /\ calls' = calls + 1
    /\ IF key \notin DOMAIN map
       THEN /\ last' = Call("remove", key, 0, "Ok", None)
            /\ ideal' = map_remove(ideal, key)
            /\ UNCHANGED <<map, integrity, indexes, queue, history,
                           expected_records>>
       ELSE IF ~ser_ok
       THEN /\ map' = map_remove(map, key)
            /\ last' = Call("remove", key, 0, "Err", Some(map[key]))
            /\ UNCHANGED <<integrity, indexes, queue, history, ideal,
                           expected_records>>
       ELSE LET rec == EncodeRemove(key)
                payload == before_write_callback(cfg.before_write, rec.line)
            IN /\ map' = map_remove(map, key)
               /\ integrity' = rec.integrity
               /\ queue' = write_bytes(queue, payload)
               /\ indexes' = update_index_when_remove(indexes, key, map[key])
               /\ last' = Call("remove", key, 0, "Ok", Some(map[key]))
               /\ history' = Append(history, [op |-> Remove(key), payload |-> payload])
               /\ ideal' = map_remove(ideal, key)
               /\ expected_records' = expected_records + 1
    /\ UNCHANGED <<cfg, phase, worker, file, locked, tampered>>

\* MapWithFile::create_index: one pass over the live map, then registration
\* (&mut self: not while an insert or remove is under way)
create_index ==
    /\ UNCHANGED aux
    /\ phase = "Open"
    /\ threads[1].pc # "enqueued"
    /\ Len(indexes) < MaxIndexes
    /\ indexes' = Append(indexes, build_index(map))
    /\ last' = Call("create_index", 0, 0, "Ok", None)
    /\ UNCHANGED <<cfg, phase, map, integrity, queue, worker, file, locked,
                   history, ideal, calls, expected_records, tampered>>

\* the worker loop of FileWorker::new on a write task: append it to the file
worker_write ==
    /\ UNCHANGED aux
    /\ worker = "Running"
    /\ queue # <<>>
    /\ recv(queue).task.type = "Write"
    /\ file' = write_all(file, recv(queue).task.data)
    /\ queue' = recv(queue).rest
    /\ UNCHANGED <<cfg, phase, map, integrity, indexes, worker, locked, last,
                   history, ideal, calls, expected_records, tampered>>

\* the worker loop on Stop: unlock the file and leave the loop
worker_stop ==
    /\ UNCHANGED aux
    /\ worker = "Running"
    /\ queue # <<>>
    /\ recv(queue).task.type = "Stop"
    /\ locked' = FALSE
    /\ worker' = "Exited"
    /\ queue' = recv(queue).rest
    /\ UNCHANGED <<cfg, phase, map, integrity, indexes, file, last, history,
                   ideal, calls, expected_records, tampered>>

\* drop(map): Drop for FileWorker sends Stop, then joins the worker
drop ==
    /\ UNCHANGED aux
    /\ phase = "Open"
    /\ threads[1].pc # "enqueued"
    /\ phase' = "Dropping"
    /\ queue' = send_stop(queue)
    /\ UNCHANGED <<cfg, map, integrity, indexes, worker, file, locked, last,
                   history, ideal, calls, expected_records, tampered>>

\* a drop that does not wait for the worker
joined_at_once == TRUE

\* whether join_handle.join() can return
joined == worker = "Exited"

\* the join returns and the wrapper with its container and indexes is gone
drop_join ==
    /\ UNCHANGED aux
    /\ phase = "Dropping"
    /\ joined
    /\ phase' = "Closed"
    /\ map' = EmptyMap
    /\ indexes' = <<>>
    /\ integrity' = NoIntegrity
    /\ last' = Call("drop", 0, 0, "Ok", None)
    /\ UNCHANGED <<cfg, queue, worker, file, locked, history, ideal, calls,
                   expected_records, tampered>>

\* a replay that hands back the configured seed instead of the advanced one
LoadMap_seed_not_advanced ==
    LET r == IF cfg.format = "Text"
             THEN map_from_text_file(cfg.kv, file, cfg.integrity, cfg.after_read)
             ELSE map_from_bin_file(cfg.kv, file, cfg.integrity, cfg.after_read)
    IN [r EXCEPT !.integrity = cfg.integrity]

\* the replay of open_or_create under the configured format
LoadMap ==
    IF cfg.format = "Text"
    THEN map_from_text_file(cfg.kv, file, cfg.integrity, cfg.after_read)
    ELSE map_from_bin_file(cfg.kv, file, cfg.integrity, cfg.after_read)

\* an open_or_create that keeps the file locked when the replay fails
opened_keeping_lock(loaded) ==
    /\ last' = Call("open", 0, 0, loaded.err, None)
    /\ locked' = TRUE
    /\ IF loaded.err = NoError
       THEN /\ phase' = "Open"
            /\ map' = loaded.map
            /\ integrity' = loaded.integrity
            /\ queue' = <<>>
            /\ worker' = "Running"
       ELSE UNCHANGED <<phase, map, integrity, queue, worker>>

\* the end of open_or_create: the error of the replay, or a wrapper with
\* the replayed map, the advanced integrity state and a new writer
opened(loaded) ==
    /\ last' = Call("open", 0, 0, loaded.err, None)
    /\ IF loaded.err = NoError
       THEN /\ phase' = "Open"
            /\ map' = loaded.map
            /\ integrity' = loaded.integrity
            /\ queue' = <<>>
            /\ worker' = "Running"
            /\ locked' = TRUE
       ELSE UNCHANGED <<phase, map, integrity, queue, worker, locked>>

\* MapWithFile::open_or_create on the same path with the same Cfg: lock,
\* replay, start the writer.  A failed replay returns the error; the file is
\* closed, which releases the lock.
open_or_create ==
    /\ UNCHANGED aux
    /\ phase = "Closed"
    /\ ~locked
    /\ other # "Open"
    /\ opened(LoadMap)
    /\ UNCHANGED <<cfg, indexes, file, history, ideal, calls, expected_records,
                   tampered>>

Next ==
    \/ \E key \in Keys(cfg.kv), value \in Values(cfg.kv), ser_ok \in BOOLEAN :
          insert(key, value, ser_ok)
    \/ \E key \in Keys(cfg.kv), ser_ok \in BOOLEAN : remove(key, ser_ok)
    \/ create_index
    \/ worker_write
    \/ worker_stop
    \/ drop
    \/ drop_join
    \/ open_or_create

Spec == Init /\ [][Next]_vars

\* ------------------------------------------------- a scheduled worker
\* task_receiver.recv() returns Err: the channel is empty and tasks_sender
\* is gone with the FileWorker (the worker loop then prints the error and
\* calls recv again)
recv_error == worker = "Running" /\ queue = <<>> /\ phase = "Closed"

\* The writer thread is scheduled whenever it has a task to take, and the
\* thread that waits in join goes on once the worker has exited.
SpecFair ==
    /\ Init
    /\ [][Next]_vars
    /\ WF_vars(worker_write)
    /\ WF_vars(worker_stop)
    /\ WF_vars(drop_join)

\* ------------------------------------- the steps inside insert and remove
\* MapWithFile::insert / remove (of a key that is present) up to
\* file_worker.write_string / write_bytes: the record is encoded, the
\* container is changed, the hook is applied and the payload is handed to
\* the writer.  The caller is threads[1]; it stands at "enqueued" with the
\* call and the old value until the indexes are updated.
call_enqueue(op, key, value) ==
    /\ UNCHANGED aux2
    /\ phase = "Open"
    /\ threads[1].pc = "idle"
    /\ calls < MaxOps
    /\ calls' = calls + 1
    /\ op = "remove" => (key \in DOMAIN map /\ value = 0)
    /\ LET rec == IF op = "insert" THEN EncodeInsert(key, value) ELSE EncodeRemove(key)
           payload == IF op = "insert" THEN HookInsert(rec.line)
                      ELSE before_write_callback(cfg.before_write, rec.line)
       IN /\ integrity' = rec.integrity
          /\ map' = IF op = "insert" THEN map_insert(map, key, value)
                    ELSE map_remove(map, key)
          /\ queue' = write_bytes(queue, payload)
          /\ history' = Append(history,
                 [op |-> IF op = "insert" THEN Insert(key, value) ELSE Remove(key),
                  payload |-> payload])
          /\ ideal' = IF op = "insert" THEN map_insert(ideal, key, value)
                      ELSE map_remove(ideal, key)
    /\ expected_records' = expected_records + 1
    /\ threads' = [threads EXCEPT ![1] = [pc |-> "enqueued", op |-> op, key |-> key,
                                          value |-> value, seq |-> 0,
                                          old |-> map_get(map, key)]]
    /\ UNCHANGED <<cfg, phase, indexes, worker, file, locked, last, tampered, other,
                   write_error_callback, failed, sink_calls, logged, manipulation,
                   applied>>

\* insert / remove from self.update_index_when_insert / _remove to the return
call_update_index ==
    /\ UNCHANGED aux2
    /\ threads[1].pc = "enqueued"
    /\ indexes' = IF threads[1].op = "insert"
                  THEN update_index_when_insert(indexes, threads[1].key,
                                                threads[1].value, threads[1].old)
                  ELSE update_index_when_remove(indexes, threads[1].key,
                                                threads[1].old.v)
    /\ last' = Call(threads[1].op, threads[1].key, threads[1].value, "Ok",
                    threads[1].old)
    /\ threads' = [threads EXCEPT ![1] = IdleThread]
    /\ UNCHANGED <<cfg, phase, map, integrity, queue, worker, file, locked, history,
                   ideal, calls, expected_records, tampered, other,
                   write_error_callback, failed, sink_calls, logged, manipulation,
                   applied>>

NextSteps ==
    \/ \E op \in {"insert", "remove"}, key \in Keys(cfg.kv), value \in Values(cfg.kv) :
          call_enqueue(op, key, value)
    \/ call_update_index
    \/ create_index
    \/ worker_write
    \/ worker_stop
    \/ drop
    \/ drop_join
    \/ open_or_create

SpecSteps == Init /\ [][NextSteps]_vars

\* ------------------------------------------------------- with hooks
\* The state after the first open_or_create with a before-write hook and
\* the after-read hook that inverts it: "Shift" for Format::Text,
\* "ShiftBlock" for Format::Bin.
InitHooks ==
    /\ cfg \in [kv : KeyValueTypes, format : Formats,
                before_write : {"Shift", "ShiftBlock"},
                after_read : {"Shift", "ShiftBlock"}, integrity : Integrities]
    /\ cfg.before_write = (IF cfg.format = "Text" THEN "Shift" ELSE "ShiftBlock")
    /\ cfg.after_read = cfg.before_write
    /\ phase = "Open"
    /\ map = EmptyMap
    /\ integrity = cfg.integrity
    /\ indexes = <<>>
    /\ queue = <<>>
    /\ worker = "Running"
    /\ file = <<>>
    /\ locked = TRUE
    /\ last = Call("open", 0, 0, NoError, None)
    /\ history = <<>>
    /\ ideal = EmptyMap
    /\ calls = 0
    /\ expected_records = 0
    /\ tampered = 0
    /\ InitAux
    /\ write_error_callback = "None"

SpecHooks == InitHooks /\ [][Next]_vars

\* ------------------------------------------------- tampering with the log
\* the bits an alteration flips in one byte: the lowest and the highest
TamperBits == {1, 128}

FlipBit(byte, bit) == IF (byte \div bit) % 2 = 1 THEN byte - bit ELSE byte + bit

\* first byte position of record i in the log written so far
RecordStart(i) == Len(Flatten(SubSeq(HistoryPayloads, 1, i - 1))) + 1

\* The offsets, within a record, of its significant bytes and of its tag:
\* in a text line all bytes but the space before the tag and the final
\* newline, in a binary block all bytes after the length prefix.
TamperOffsets(payload) ==
    IF cfg.format = "Text"
    THEN (1..(Len(payload) - 1)) \ {rfind(payload, SP)}
    ELSE read_bin_block_len(payload, 1).next .. Len(payload)

\* Someone flips one bit of one record of a closed log of valid records that
\* was written with an integrity mode.
tamper ==
    /\ UNCHANGED aux
    /\ phase = "Closed"
    /\ ~locked
    /\ tampered = 0
    /\ cfg.integrity # NoIntegrity
    /\ LoadMap.err = NoError
    /\ \E i \in 1..Len(history) :
          \E off \in TamperOffsets(history[i].payload), bit \in TamperBits :
              /\ file' = [file EXCEPT ![RecordStart(i) + off - 1] = FlipBit(@, bit)]
              /\ tampered' = i
    /\ UNCHANGED <<cfg, phase, map, integrity, indexes, queue, worker, locked,
                   last, history, ideal, calls, expected_records>>

NextTamper ==
    \/ Next
    \/ tamper

SpecTamper == Init /\ [][NextTamper]_vars

\* ------------------------------------------------- editing a chained log
ChainKinds == {"Sha1Chain", "Sha256Chain"}
ChainErrorKinds == {"Sha1ChainError", "Sha256ChainError"}

\* a seed other than the configured one, of the same width
OtherSeed(n) == LeBytes(1, n)

\* the closed log is a valid log written under a chain mode and was not
\* touched so far
chained_log_at_rest ==
    /\ phase = "Closed"
    /\ ~locked
    /\ tampered = 0
    /\ manipulation = "none"
    /\ cfg.integrity.kind \in ChainKinds
    /\ LoadMap.err = NoError

\* Someone deletes a record that is not the last one.
delete_record ==
    /\ UNCHANGED aux2
    /\ chained_log_at_rest
    /\ \E i \in 1..(Len(history) - 1) :
          /\ file' = Flatten(SubSeq(HistoryPayloads, 1, i - 1))
                        \o Flatten(SubSeq(HistoryPayloads, i + 1, Len(history)))
          /\ tampered' = i
    /\ manipulation' = "delete"
    /\ UNCHANGED <<cfg, phase, map, integrity, indexes, queue, worker, locked,
                   last, history, ideal, calls, expected_records, other,
                   write_error_callback, failed, sink_calls, logged, threads,
                   applied>>

\* Someone swaps two adjacent records that differ.
swap_records ==
    /\ UNCHANGED aux2
    /\ chained_log_at_rest
    /\ \E i \in 1..(Len(history) - 1) :
          /\ history[i].payload # history[i + 1].payload
          /\ file' = Flatten(SubSeq(HistoryPayloads, 1, i - 1))
                        \o history[i + 1].payload \o history[i].payload
                        \o Flatten(SubSeq(HistoryPayloads, i + 2, Len(history)))
          /\ tampered' = i
    /\ manipulation' = "swap"
    /\ UNCHANGED <<cfg, phase, map, integrity, indexes, queue, worker, locked,
                   last, history, ideal, calls, expected_records, other,
                   write_error_callback, failed, sink_calls, logged, threads,
                   applied>>

\* The user passes a Cfg with another seed to the next open_or_create of a
\* log that holds a record.
change_seed ==
    /\ UNCHANGED aux2
    /\ chained_log_at_rest
    /\ history # <<>>
    /\ cfg' = [cfg EXCEPT !.integrity.prev = OtherSeed(Len(@))]
    /\ tampered' = 1
    /\ manipulation' = "seed"
    /\ UNCHANGED <<phase, map, integrity, indexes, queue, worker, file, locked,
                   last, history, ideal, calls, expected_records, other,
                   write_error_callback, failed, sink_calls, logged, threads,
                   applied>>

NextChain ==
    \/ Next
    \/ delete_record
    \/ swap_records
    \/ change_seed

\* the first open_or_create was made under a chain mode
InitChain ==
    /\ Init
    /\ cfg.integrity.kind \in ChainKinds

SpecChain == InitChain /\ [][NextChain]_vars

\* ------------------------------------------------------- process killed
\* The process is killed while a wrapper is alive: the records still in the
\* channel are lost with the process, the worker is gone, the kernel drops
\* the lock, the file keeps the bytes of the write_all calls that returned.
kill ==
    /\ UNCHANGED aux2
    /\ phase \in {"Open", "Dropping"}
    /\ phase' = "Killed"
    /\ worker' = "Killed"
    /\ queue' = <<>>
    /\ locked' = FALSE
    /\ map' = EmptyMap
    /\ indexes' = <<>>
    /\ integrity' = NoIntegrity
    /\ last' = Call("kill", 0, 0, "Ok", None)
    /\ UNCHANGED <<cfg, file, history, ideal, calls, expected_records, tampered>>
    /\ UNCHANGED aux

NextCrash ==
    \/ Next
    \/ kill

SpecCrash == Init /\ [][NextCrash]_vars

\* ------------------------------------------- a second opener of the path
\* Another MapWithFile::open_or_create on the same path, in another thread or
\* process.  file.lock_exclusive() is flock(LOCK_EX): it returns at once when
\* nobody holds the lock and otherwise blocks until the lock is released.
\* With the lock the second opener replays the file; a failed replay returns
\* the error and closes the file, a good one leaves a second live wrapper.
other_open_or_create ==
    /\ UNCHANGED aux2
    /\ other = "Idle"
    /\ phase # "Killed"
    /\ other' = IF locked THEN "Waiting"
                ELSE IF LoadMap.err = NoError THEN "Open" ELSE "Idle"
    /\ UNCHANGED <<cfg, phase, map, integrity, indexes, queue, worker, file,
                   locked, last, history, ideal, calls, expected_records,
                   tampered, write_error_callback, failed, sink_calls, logged,
                   manipulation, threads, applied>>

\* the blocked lock_exclusive() returns once the lock is free
other_lock_acquired ==
    /\ UNCHANGED aux2
    /\ other = "Waiting"
    /\ ~locked
    /\ other' = IF LoadMap.err = NoError THEN "Open" ELSE "Idle"
    /\ UNCHANGED <<cfg, phase, map, integrity, indexes, queue, worker, file,
                   locked, last, history, ideal, calls, expected_records,
                   tampered, write_error_callback, failed, sink_calls, logged,
                   manipulation, threads, applied>>

\* the second wrapper, which wrote nothing, is dropped
other_drop ==
    /\ UNCHANGED aux2
    /\ other = "Open"
    /\ other' = "Idle"
    /\ UNCHANGED <<cfg, phase, map, integrity, indexes, queue, worker, file,
                   locked, last, history, ideal, calls, expected_records,
                   tampered, write_error_callback, failed, sink_calls, logged,
                   manipulation, threads, applied>>

NextLock ==
    \/ Next
    \/ other_open_or_create
    \/ other_lock_acquired
    \/ other_drop

SpecLock == Init /\ [][NextLock]_vars

\* ------------------------------------------------------ failing writes
WriteErrorCallbacks == {"None", "Callback", "Panics"}

\* a worker that lets the panic of the callback unwind
catch_unwind_missing(callback) ==
    IF callback = "Panics" THEN "Unwind" ELSE "Ok"

\* panic::catch_unwind(|| hook(err)): Err when the callback panics
catch_unwind(callback) ==
    IF callback = "Panics" THEN "Err" ELSE "Ok"

\* a worker that hands a write error to the callback twice
call_error_callback_twice(callback, record) ==
    IF callback = "None"
    THEN [calls |-> <<>>, log |-> <<"err">>, worker |-> "Running"]
    ELSE [calls |-> <<record, record>>, log |-> <<>>, worker |-> "Running"]

\* call_error_callback for the write error of a record: the calls of the
\* callback, the dbg! output, and the worker thread afterwards
call_error_callback(callback, record) ==
    IF callback = "None"
    THEN [calls |-> <<>>, log |-> <<"err">>, worker |-> "Running"]
    ELSE [calls |-> <<record>>,
          log |-> IF catch_unwind(callback) = "Err" THEN <<"panic">> ELSE <<>>,
          worker |-> IF catch_unwind(callback) = "Unwind"
                     THEN "Panicked" ELSE "Running"]

\* The worker loop on a write task whose file.write_all returns an error
\* (nothing is appended): the error goes to call_error_callback and the
\* loop takes the next task.
worker_write_error ==
    /\ UNCHANGED aux2
    /\ worker = "Running"
    /\ queue # <<>>
    /\ recv(queue).task.type = "Write"
    /\ queue' = recv(queue).rest
    /\ LET record == Len(history) - Len(Payloads(queue)) + 1
           handled == call_error_callback(write_error_callback, record)
       IN /\ failed' = Append(failed, record)
          /\ sink_calls' = sink_calls \o handled.calls
          /\ logged' = logged \o handled.log
          /\ worker' = handled.worker
    /\ UNCHANGED <<cfg, phase, map, integrity, indexes, file, locked, last,
                   history, ideal, calls, expected_records, tampered, other,
                   write_error_callback, manipulation, threads, applied>>

\* a text log without integrity, opened with any write_error_callback
InitWriteError ==
    /\ InitWrapper
    /\ InitAux
    /\ cfg.format = "Text"
    /\ cfg.integrity = NoIntegrity
    /\ write_error_callback \in WriteErrorCallbacks

NextWriteError ==
    \/ Next
    \/ worker_write_error

SpecWriteError == InitWriteError /\ [][NextWriteError]_vars

\* a log of either format under a chain mode, opened with any
\* write_error_callback
InitChainWriteError ==
    /\ InitWrapper
    /\ InitAux
    /\ cfg.integrity.kind \in {"Sha1Chain", "Sha256Chain"}
    /\ write_error_callback \in WriteErrorCallbacks

SpecChainWriteError == InitChainWriteError /\ [][NextWriteError]_vars

\* ------------------------------------------- a BTree shared by threads
\* src/src/btree.rs: BTree<Key, Value> is Clone, its calls take &self, the map
\* sits behind an RwLock and a thread pool of one thread appends to the log.
\* A job of the pool carries the JSON of the operation; the line is tagged
\* and written when the job runs.

\* a pool that runs the newest job first
execute_newest_first(q, job) == <<WriteTask(job)>> \o q

\* thread_pool.execute(job): the job joins the end of the pool's queue
execute(q, job) == Append(q, WriteTask(job))

\* BTree::insert up to the release of the map lock: the JSON is made, the
\* value is stored under the lock (in place, or by BTreeMap::insert), the
\* lock is released.  Index update and enqueueing come afterwards.
bt_insert_apply(t, key, value) ==
    /\ UNCHANGED aux2
    /\ threads[t].pc = "idle"
    /\ \A u \in Threads : threads[u].pc # "swapping"
    /\ calls < MaxCalls
    /\ calls' = calls + 1
    /\ map' = map_insert(map, key, value)
    /\ applied' = Append(applied, Insert(key, value))
    /\ threads' = [threads EXCEPT ![t] = [pc |-> "applied", op |-> "insert",
                                          key |-> key, value |-> value,
                                          seq |-> @.seq + 1]]
    /\ UNCHANGED <<cfg, phase, integrity, indexes, queue, worker, file, locked,
                   last, history, ideal, expected_records, tampered, other,
                   write_error_callback, failed, sink_calls, logged,
                   manipulation>>

\* BTree::insert from write_insert_to_log_file_async to the return
bt_insert_enqueue(t) ==
    /\ UNCHANGED aux2
    /\ threads[t].pc = "applied"
    /\ LET line == INS \o json_key_value(cfg.kv, threads[t].key, threads[t].value)
       IN /\ queue' = execute(queue, line)
          /\ history' = Append(history,
                 [op |-> Insert(threads[t].key, threads[t].value),
                  payload |-> line, thread |-> t, seq |-> threads[t].seq])
    /\ threads' = [threads EXCEPT ![t].pc = "idle"]
    /\ last' = Call("insert", threads[t].key, threads[t].value, "Ok", None)
    /\ UNCHANGED <<cfg, phase, map, integrity, indexes, worker, file, locked,
                   ideal, calls, expected_records, tampered, other,
                   write_error_callback, failed, sink_calls, logged,
                   manipulation, applied>>

\* BTree::remove: the write guard of `if let Some(..) = map.write()?.remove(..)`
\* lives to the end of the if-let, so removing and enqueueing are one step
\* for every other user of the map lock.
bt_remove(t, key) ==
    /\ UNCHANGED aux2
    /\ threads[t].pc = "idle"
    /\ \A u \in Threads : threads[u].pc # "swapping"
    /\ calls < MaxCalls
    /\ calls' = calls + 1
    /\ threads' = [threads EXCEPT ![t].seq = @ + 1]
    /\ IF key \in DOMAIN map
       THEN /\ map' = map_remove(map, key)
            /\ applied' = Append(applied, Remove(key))
            /\ queue' = execute(queue, REM \o json_key(cfg.kv, key))
            /\ history' = Append(history,
                   [op |-> Remove(key), payload |-> REM \o json_key(cfg.kv, key),
                    thread |-> t, seq |-> threads[t].seq + 1])
            /\ last' = Call("remove", key, 0, "Ok", Some(map[key]))
       ELSE /\ last' = Call("remove", key, 0, "Ok", None)
            /\ UNCHANGED <<map, applied, queue, history>>
    /\ UNCHANGED <<cfg, phase, integrity, indexes, worker, file, locked, ideal,
                   expected_records, tampered, other, write_error_callback,
                   failed, sink_calls, logged, manipulation>>

\* the pool's thread runs the oldest job: tag the line, append it to the
\* file.  The job waits for the log_file mutex while remove_history holds it;
\* remove and the insert of a new key wait for the map lock remove_history
\* reads under (an insert that overwrites a value needs the read lock only:
\* the model makes it wait too).
bt_worker ==
    /\ UNCHANGED aux2
    /\ queue # <<>>
    /\ \A u \in Threads : threads[u].pc # "swapping"
    /\ LET job == recv(queue)
           rec == post_process_text_file_line(job.task.data, integrity)
       IN /\ file' = write_all(file, rec.line)
          /\ integrity' = rec.integrity
          /\ queue' = job.rest
    /\ UNCHANGED <<cfg, phase, map, indexes, worker, locked, last, history,
                   ideal, calls, expected_records, tampered>>
    /\ UNCHANGED aux

\* BTree::open_or_create on a new path, without integrity or with Crc32
InitBTree ==
    /\ InitWrapper
    /\ InitAux
    /\ cfg.format = "Text"
    /\ cfg.integrity \in {NoIntegrity, Crc32}
    /\ write_error_callback = "None"

NextBTree ==
    \/ \E t \in Threads, key \in Keys(cfg.kv), value \in Values(cfg.kv) :
          bt_insert_apply(t, key, value)
    \/ \E t \in Threads : bt_insert_enqueue(t)
    \/ \E t \in Threads, key \in Keys(cfg.kv) : bt_remove(t, key)
    \/ bt_worker

SpecBTree == InitBTree /\ [][NextBTree]_vars

\* ---------------------------------------------- a shared BTree with indexes
\* BTree::create_btree_index: the index map is built from the map under its
\* read lock and pushed to the indexes.  It is called while no insert is
\* under way: the indexes are registered first, then the threads insert.
bt_create_btree_index ==
    /\ UNCHANGED aux
    /\ Len(indexes) < MaxIndexes
    /\ \A t \in Threads : threads[t].pc = "idle"
    /\ indexes' = Append(indexes, build_index(map))
    /\ UNCHANGED <<cfg, phase, map, integrity, queue, worker, file, locked, last,
                   history, ideal, calls, expected_records, tampered>>

\* the indexes whose RwLock a panicking on_insert has poisoned
poisoned == {threads[u].at : u \in {v \in Threads : threads[v].pc = "panicked"}}

\* The loop `for index in indexes { index.on_insert(..)? }` of BTree::insert
\* from index i on: [result, idxs, at].  BtreeIndex::on_insert takes the
\* write lock of the index map (PoisonError when it is poisoned), expects
\* the bucket of the old value to be there (unreachable!() when it is not),
\* takes the key out of it and puts it into the bucket of the new value.
RECURSIVE bt_indexes_on_insert(_, _, _, _, _, _)
bt_indexes_on_insert(idxs, i, bad, key, value, old_value) ==
    IF i > Len(idxs) THEN [result |-> "Ok", idxs |-> idxs, at |-> 0]
    ELSE IF i \in bad THEN [result |-> "PoisonError", idxs |-> idxs, at |-> i]
    ELSE IF old_value.some /\ make_index_key_callback(old_value.v) \notin DOMAIN idxs[i]
    THEN [result |-> "unreachable", idxs |-> idxs, at |-> i]
    ELSE bt_indexes_on_insert([idxs EXCEPT ![i] = on_insert(@, key, value, old_value)],
                              i + 1, bad, key, value, old_value)

\* BTree::insert up to the release of the map lock, keeping the old value
bt_insert_store(t, key, value) ==
    /\ UNCHANGED aux2
    /\ threads[t].pc = "idle"
    /\ calls < MaxCalls
    /\ calls' = calls + 1
    /\ map' = map_insert(map, key, value)
    /\ applied' = Append(applied, Insert(key, value))
    /\ threads' = [threads EXCEPT ![t] = [pc |-> "stored", op |-> "insert",
                                          key |-> key, value |-> value,
                                          seq |-> @.seq + 1,
                                          old |-> map_get(map, key), at |-> 0]]
    /\ UNCHANGED <<cfg, phase, integrity, indexes, queue, worker, file, locked,
                   last, history, ideal, expected_records, tampered, other,
                   write_error_callback, failed, sink_calls, logged,
                   manipulation>>

\* BTree::insert, the update of the indexes: on Ok the call goes on to
\* write_insert_to_log_file_async, on PoisonError it returns the error, on
\* unreachable!() the calling thread panics with the index map locked.
bt_insert_index(t) ==
    /\ UNCHANGED aux2
    /\ threads[t].pc = "stored"
    /\ LET r == bt_indexes_on_insert(indexes, 1, poisoned, threads[t].key,
                                     threads[t].value, threads[t].old)
       IN /\ indexes' = r.idxs
          /\ threads' = [threads EXCEPT
                 ![t].pc = CASE r.result = "Ok" -> "applied"
                             [] r.result = "PoisonError" -> "idle"
                             [] OTHER -> "panicked",
                 ![t].at = r.at]
          /\ last' = IF r.result = "PoisonError"
                     THEN Call("insert", threads[t].key, threads[t].value, "Err",
                               threads[t].old)
                     ELSE last
    /\ UNCHANGED <<cfg, phase, map, integrity, queue, worker, file, locked,
                   history, ideal, calls, expected_records, tampered, other,
                   write_error_callback, failed, sink_calls, logged,
                   manipulation, applied>>

NextBTreeIndex ==
    \/ bt_create_btree_index
    \/ \E t \in Threads, key \in Keys(cfg.kv), value \in Values(cfg.kv) :
          bt_insert_store(t, key, value)
    \/ \E t \in Threads : bt_insert_index(t)
    \/ \E t \in Threads : bt_insert_enqueue(t)
    \/ bt_worker

SpecBTreeIndex == InitBTree /\ [][NextBTreeIndex]_vars

\* -------------------------------------------------- BTree::remove_history
\* the lines remove_history writes to the temporary file: "ins " and the
\* JSON of each pair of the map in key order, a newline, no integrity tag
RECURSIVE remove_history_lines(_)
remove_history_lines(m) ==
    IF DOMAIN m = {} THEN <<>>
    ELSE LET key == CHOOSE k \in DOMAIN m : \A j \in DOMAIN m : k <= j
         IN INS \o json_key_value(cfg.kv, key, m[key]) \o <<NL>>
              \o remove_history_lines(map_remove(m, key))

\* remove_history up to log_file.unlock(): the map is read-locked, the pool
\* is joined (its queue is empty), the log_file mutex is taken, the lines are
\* written to the temporary file and the lock on the live log is given up.
bt_remove_history_unlock(t) ==
    /\ UNCHANGED <<conv, probe>>
    /\ threads[t].pc = "idle"
    /\ \A u \in Threads : threads[u].pc # "swapping"
    /\ calls < MaxCalls
    /\ calls' = calls + 1
    /\ queue = <<>>
    /\ compacted' = [done |-> FALSE, map |-> map, tmp |-> remove_history_lines(map)]
    /\ locked' = FALSE
    /\ threads' = [threads EXCEPT ![t].pc = "swapping"]
    /\ UNCHANGED <<cfg, phase, map, integrity, indexes, queue, worker, file, last,
                   history, ideal, expected_records, tampered, other,
                   write_error_callback, failed, sink_calls, logged, manipulation,
                   applied>>

\* remove_history from fs::rename to the return: the temporary file is
\* renamed onto the log path (rename_ok: whether that succeeds), the path is
\* opened again and locked, the result of the rename is returned.
bt_remove_history_swap(t, rename_ok) ==
    /\ UNCHANGED <<conv, probe>>
    /\ threads[t].pc = "swapping"
    /\ file' = IF rename_ok THEN compacted.tmp ELSE file
    /\ locked' = TRUE
    /\ compacted' = [done |-> TRUE, ok |-> rename_ok, map |-> compacted.map,
                     tmp |-> compacted.tmp,
                     file |-> IF rename_ok THEN compacted.tmp ELSE file]
    /\ last' = Call("remove_history", 0, 0, IF rename_ok THEN "Ok" ELSE "Err", None)
    /\ threads' = [threads EXCEPT ![t].pc = "idle"]
    /\ UNCHANGED <<cfg, phase, map, integrity, indexes, queue, worker, history,
                   ideal, calls, expected_records, tampered, other,
                   write_error_callback, failed, sink_calls, logged, manipulation,
                   applied>>

NextCompact ==
    \/ NextBTree
    \/ \E t \in Threads : bt_remove_history_unlock(t)
    \/ \E t \in Threads, rename_ok \in BOOLEAN : bt_remove_history_swap(t, rename_ok)

SpecCompact == InitBTree /\ [][NextCompact]_vars

\* ------------------------------------------------------------- convert
\* the transforms handed to convert: leave the record as it is, or replace
\* the value v of an Insert by MaxValue - v
Transforms == {"identity", "negate"}

\* f(map_operation)
transform(f, op) ==
    IF f = "negate" /\ op.op = "Insert" /\ cfg.kv = "u8"
    THEN Insert(op.key, MaxValue - op.value)
    ELSE op

\* the destination configurations: any format; no integrity, CRC, or a
\* chain with a seed of its own
DstCfgs ==
    [kv : {cfg.kv}, format : Formats, before_write : {"None"}, after_read : {"None"},
     integrity : {NoIntegrity, Crc32, Sha1Chain(OtherSeed(SHA1_HASH_LEN))}]

\* the record at which process_map_operation fails and how: writing to the
\* destination or encoding the transformed record (at 0: never)
ConvertFailures ==
    {[at |-> 0, kind |-> "none"], [at |-> 1, kind |-> "SerializeError"],
     [at |-> MaxOps, kind |-> "WriteToFileError"]}

\* a converter that writes over the source when both paths are equal
dst_file_path_in_place(file_is_same) == IF file_is_same THEN "src" ELSE "dst"

\* the path convert writes to: a fresh file in the temporary directory when
\* source and destination are the same path
dst_file_path(file_is_same) == IF file_is_same THEN "tmp" ELSE "dst"

\* the line process_map_operation writes for one delivered operation: the
\* text line of f(op) under the destination integrity, whatever the format
\* of dst_cfg is
process_map_operation(f, op, dst_integrity) ==
    LET out == transform(f, op)
    IN IF out.op = "Insert"
       THEN text_file_line_of_insert(cfg.kv, out.key, out.value, dst_integrity)
       ELSE file_line_of_remove(cfg.kv, out.key, dst_integrity)

\* what the first n calls of process_map_operation append to dst_file
RECURSIVE ConvertWrites(_, _, _, _)
ConvertWrites(f, ops, dst_integrity, n) ==
    IF n = 0 \/ ops = <<>> THEN <<>>
    ELSE LET rec == process_map_operation(f, Head(ops), dst_integrity)
         IN rec.line \o ConvertWrites(f, Tail(ops), rec.integrity, n - 1)

\* convert(src_path, src_cfg, dst_path, dst_cfg, f) on the source bytes src:
\* the loader of the source format runs with process_map_operation as its
\* callback.  A failed write or encoding sets write_err and makes the
\* callback return Err(()), which interrupts the loader; the result is the
\* error of the loader wrapped in LoadFileError, write_err is not read.
convert_loaded(loaded, dst_cfg, f, failure) ==
    LET interrupted == loaded.err.kind = "Interrupted"
    IN [err |-> IF loaded.err = NoError THEN "Ok" ELSE "LoadFileError",
        load_err |-> loaded.err,
        write_err |-> IF interrupted THEN failure.kind ELSE "none",
        dst |-> ConvertWrites(f, loaded.ops, dst_cfg.integrity,
                              IF interrupted THEN Len(loaded.ops) - 1
                              ELSE Len(loaded.ops))]

convert(src, dst_cfg, f, failure) ==
    convert_loaded(
        IF cfg.format = "Text"
        THEN load_from_text_file(cfg.kv, src, cfg.integrity, cfg.after_read, failure.at)
        ELSE load_from_bin_file(cfg.kv, src, cfg.integrity, cfg.after_read, failure.at),
        dst_cfg, f, failure)

\* A call of convert on the closed log, src_cfg being the configuration the
\* log was written with.  rename_ok: whether fs::rename of the temporary
\* file onto the source succeeds.  The path is followed up to the return of
\* the call (phase "Converted").
convert_call(dst_cfg, f, file_is_same, failure, rename_ok) ==
    /\ phase = "Closed"
    /\ phase' = "Converted"
    /\ ~locked
    /\ other # "Open"
    /\ ~conv.called
    /\ rename_ok \/ file_is_same
    /\ LET c == convert(file, dst_cfg, f, failure)
           path == dst_file_path(file_is_same)
           renamed == file_is_same /\ c.err = "Ok" /\ rename_ok
       IN /\ conv' = [called |-> TRUE, src |-> file, dst_cfg |-> dst_cfg, f |-> f,
                      file_is_same |-> file_is_same, failure |-> failure,
                      result |-> IF file_is_same /\ c.err = "Ok" /\ ~rename_ok
                                 THEN "TmpFileError" ELSE c.err,
                      load_err |-> c.load_err, write_err |-> c.write_err,
                      dst |-> c.dst, renamed |-> renamed]
          /\ file' = IF path = "src" \/ renamed THEN c.dst ELSE file
    /\ UNCHANGED <<cfg, map, integrity, indexes, queue, worker, locked, last,
                   history, ideal, calls, expected_records, tampered, other,
                   write_error_callback, failed, sink_calls, logged, manipulation,
                   threads, applied, compacted, probe>>

NextConvert ==
    \/ Next
    \/ \E dst_cfg \in DstCfgs, f \in Transforms, file_is_same \in BOOLEAN,
          failure \in ConvertFailures, rename_ok \in BOOLEAN :
          convert_call(dst_cfg, f, file_is_same, failure, rename_ok)

SpecConvert == Init /\ [][NextConvert]_vars

\* ------------------------------------------------------ damaged logs
\* What can happen to record i of a closed log: the file ends one byte
\* before the end of the record (a text line without its newline, a block
\* cut by the end of the file) or after the first byte of the record; the
\* length of a binary block reads 0; its length prefix names another width
\* (U16_LEN); the first byte of the record proper (the op byte of a block,
\* the first letter of a line) is one that names no operation.
DamageKinds == {"cut_last_byte", "cut_after_first_byte", "zero_length", "bad_prefix",
                "bad_opcode"}

\* the bytes of the log after record i was damaged
damaged(i, kind) ==
    LET start == RecordStart(i)
        payload == history[i].payload
    IN CASE kind = "cut_last_byte" -> SubSeq(file, 1, start + Len(payload) - 2)
         [] kind = "cut_after_first_byte" -> SubSeq(file, 1, start)
         [] kind = "zero_length" -> [file EXCEPT ![start + 1] = 0]
         [] kind = "bad_prefix" -> [file EXCEPT ![start] = U16_LEN]
         [] kind = "bad_opcode" ->
              IF cfg.format = "Text" THEN [file EXCEPT ![start] = 120]
              ELSE [file EXCEPT ![start + read_bin_block_len(payload, 1).next - 1] = 2]

\* A closed log of valid records is damaged in record i.
damage(i, kind) ==
    /\ UNCHANGED aux2
    /\ phase = "Closed"
    /\ ~locked
    /\ tampered = 0
    /\ manipulation = "none"
    /\ LoadMap.err = NoError
    /\ i \in 1..Len(history)
    /\ cfg.format = "Text" => kind \notin {"zero_length", "bad_prefix"}
    /\ file' = damaged(i, kind)
    /\ tampered' = i
    /\ manipulation' = kind
    /\ UNCHANGED <<cfg, phase, map, integrity, indexes, queue, worker, locked,
                   last, history, ideal, calls, expected_records, other,
                   write_error_callback, failed, sink_calls, logged, threads,
                   applied>>

NextDamage ==
    \/ Next
    \/ \E i \in 1..MaxOps, kind \in DamageKinds : damage(i, kind)

SpecDamage == Init /\ [][NextDamage]_vars

\* ------------------------------------------- reserved bits of a class byte
\* the upper 6 bits of a class byte, one at a time
ReservedBits == {4, 8, 16, 32, 64, 128}

\* The class byte of block i of a closed binary log of valid records gets
\* one of its upper 6 bits set.
set_reserved_bit(i, bit) ==
    /\ UNCHANGED aux2
    /\ phase = "Closed"
    /\ ~locked
    /\ tampered = 0
    /\ manipulation = "none"
    /\ cfg.format = "Bin"
    /\ LoadMap.err = NoError
    /\ i \in 1..Len(history)
    /\ file' = [file EXCEPT ![RecordStart(i)] = @ + bit]
    /\ tampered' = i
    /\ manipulation' = "reserved_bits"
    /\ UNCHANGED <<cfg, phase, map, integrity, indexes, queue, worker, locked,
                   last, history, ideal, calls, expected_records, other,
                   write_error_callback, failed, sink_calls, logged, threads,
                   applied>>

NextReserved ==
    \/ Next
    \/ \E i \in 1..MaxOps, bit \in ReservedBits : set_reserved_bit(i, bit)

SpecReserved == Init /\ [][NextReserved]_vars

\* -------------------------------------------- the codec called on its own
\* No wrapper is open on the path and the log is empty: the functions of the
\* codec are called directly, as the tests of the crate call them.
Unopened ==
    /\ cfg = [kv |-> "unit", format |-> "Bin", before_write |-> "None",
              after_read |-> "None", integrity |-> NoIntegrity]
    /\ phase = "Closed"
    /\ map = EmptyMap
    /\ integrity = NoIntegrity
    /\ indexes = <<>>
    /\ queue = <<>>
    /\ worker = "Exited"
    /\ file = <<>>
    /\ locked = FALSE
    /\ last = Call("none", 0, 0, "Ok", None)
    /\ history = <<>>
    /\ ideal = EmptyMap
    /\ calls = 0
    /\ expected_records = 0
    /\ tampered = 0
    /\ other = "Idle"
    /\ write_error_callback = "None"
    /\ failed = <<>>
    /\ sink_calls = <<>>
    /\ logged = <<>>
    /\ manipulation = "none"
    /\ threads = [t \in Threads |-> IdleThread]
    /\ applied = <<>>
    /\ conv = NoConvert
    /\ compacted = [done |-> FALSE]

\* everything but probe
wrapper_vars == <<cfg, phase, map, integrity, indexes, queue, worker, file, locked,
                  last, history, ideal, calls, expected_records, tampered, other,
                  write_error_callback, failed, sink_calls, logged, manipulation,
                  threads, applied, conv, compacted>>

\* the block lengths tried: the small ones and those around the class limits
BlockLens == 1..MaxBlockLen \cup {U16_MAX - 1, U16_MAX, U16_MAX + 1, U16_MAX + 2}

\* bin_block_len(len)
bin_block_len_call ==
    /\ probe.fn = "bin_block_len"
    /\ probe.step = "start"
    /\ probe' = [probe EXCEPT !.step = "written", !.prefix = bin_block_len(probe.len)]
    /\ UNCHANGED wrapper_vars

\* read_bin_block_len on a reader positioned at the start of that prefix
read_bin_block_len_call ==
    /\ probe.fn = "bin_block_len"
    /\ probe.step = "written"
    /\ probe' = [probe EXCEPT !.step = "read",
                               !.read = read_bin_block_len(probe.prefix, 1)]
    /\ UNCHANGED wrapper_vars

InitPrefix ==
    /\ Unopened
    /\ probe \in [fn : {"bin_block_len"}, step : {"start"}, len : BlockLens,
                   prefix : {<<>>}, read : {[err |-> NoError, len |-> 0, next |-> 1]}]

NextPrefix ==
    \/ bin_block_len_call
    \/ read_bin_block_len_call

SpecPrefix == InitPrefix /\ [][NextPrefix]_vars

\* ------------------------------------------------ a loader called on its own
\* load_from_text_file / load_from_bin_file on a reader over given bytes,
\* with a processed_callback that returns Err(()) on record cancel_at.

\* the bytes a line is made of, apart from its tag and its newline
LineBytes == {97, SP}

\* the sequences over S of at most n elements
BoundedSeq(S, n) == UNION {[1..k -> S] : k \in 0..n}

\* A line that no insert or remove wrote: some bytes, with the tag of the
\* integrity mode over them or with none, with its newline or cut before it.
odd_line(data, integ, tagged, terminated) ==
    LET line == IF tagged THEN post_process_text_file_line(data, integ).line
                ELSE data \o <<NL>>
    IN IF terminated THEN line ELSE SubSeq(line, 1, Len(line) - 1)

\* the operations on the keys and values of a type
MapOperations(kv) ==
    {Insert(k, v) : k \in Keys(kv), v \in Values(kv)} \cup {Remove(k) : k \in Keys(kv)}

\* the log that the given operations leave, written from the given
\* integrity state on
RECURSIVE log_of(_, _, _, _)
log_of(kv, format, ops, integ) ==
    IF ops = <<>> THEN <<>>
    ELSE LET op == Head(ops)
             rec == IF format = "Text"
                    THEN IF op.op = "Insert"
                         THEN text_file_line_of_insert(kv, op.key, op.value, integ)
                         ELSE file_line_of_remove(kv, op.key, integ)
                    ELSE IF op.op = "Insert"
                         THEN bin_file_block_of_insert(kv, op.key, op.value, integ)
                         ELSE bin_file_block_of_remove(kv, op.key, integ)
         IN rec.line \o log_of(kv, format, Tail(ops), rec.integrity)

\* the loader is about to be called on an odd text line
odd_line_given ==
    \E data \in BoundedSeq(LineBytes, MaxDataLen), i \in Integrities,
       tagged \in BOOLEAN, terminated \in BOOLEAN :
        probe = [fn |-> "load", step |-> "start", kv |-> "unit", format |-> "Text",
                 integrity |-> i, cancel_at |-> 0, ops |-> <<>>,
                 bytes |-> odd_line(data, i, tagged, terminated),
                 result |-> LoadResult(NoError, <<>>, i)]

\* the loader is about to be called on a log of valid records
log_given ==
    \E kv \in KeyValueTypes, format \in Formats, i \in Integrities,
       cancel_at \in 0..MaxOps :
        \E ops \in BoundedSeq(MapOperations(kv), MaxOps) :
            probe = [fn |-> "load", step |-> "start", kv |-> kv, format |-> format,
                     integrity |-> i, cancel_at |-> cancel_at, ops |-> ops,
                     bytes |-> log_of(kv, format, ops, i),
                     result |-> LoadResult(NoError, <<>>, i)]

load_call ==
    /\ probe.fn = "load"
    /\ probe.step = "start"
    /\ probe' = [probe EXCEPT
            !.step = "done",
            !.result = IF probe.format = "Text"
                       THEN load_from_text_file(probe.kv, probe.bytes, probe.integrity,
                                                "None", probe.cancel_at)
                       ELSE load_from_bin_file(probe.kv, probe.bytes, probe.integrity,
                                               "None", probe.cancel_at)]
    /\ UNCHANGED wrapper_vars

InitLoad ==
    /\ Unopened
    /\ odd_line_given \/ log_given

SpecLoad == InitLoad /\ [][load_call]_vars

\* ------------------------------------------------ an index read on its own
\* An owner map of up to MaxOwnerKey + 1 keys with its index, as create_index
\* builds it; Index::get is called on it, then the owner map changes and
\* the index with it, while the caller still holds the vec it got.
OwnerKeys == 0..MaxOwnerKey
IndexKeys == 0..MaxValue

\* the owner maps: some of the keys, each with a value
OwnerMaps == UNION {[ks -> IndexKeys] : ks \in SUBSET OwnerKeys}

\* Index::get(&ik)
index_get_call(ik) ==
    /\ probe.fn = "index"
    /\ probe.step = "built"
    /\ probe' = [probe EXCEPT !.step = "got", !.ik = ik,
                               !.index_at_call = probe.index,
                               !.vec = index_get_vec(probe.index, ik)]
    /\ UNCHANGED wrapper_vars

\* an insert into the owner map after the call: the index is updated
index_owner_insert(key, value) ==
    /\ probe.fn = "index"
    /\ probe.step = "got"
    /\ probe' = [probe EXCEPT
            !.step = "changed",
            !.owner = map_insert(probe.owner, key, value),
            !.index = on_insert(probe.index, key, value, map_get(probe.owner, key))]
    /\ UNCHANGED wrapper_vars

\* a remove from the owner map after the call: the index is updated
index_owner_remove(key) ==
    /\ probe.fn = "index"
    /\ probe.step = "got"
    /\ key \in DOMAIN probe.owner
    /\ probe' = [probe EXCEPT
            !.step = "changed",
            !.owner = map_remove(probe.owner, key),
            !.index = on_remove(probe.index, key, probe.owner[key])]
    /\ UNCHANGED wrapper_vars

InitIndex ==
    /\ Unopened
    /\ \E m \in OwnerMaps :
          probe = [fn |-> "index", step |-> "built", owner |-> m,
                   index |-> build_index(m), index_at_call |-> build_index(m),
                   ik |-> 0, vec |-> <<>>]

NextIndex ==
    \/ \E ik \in IndexKeys : index_get_call(ik)
    \/ \E key \in OwnerKeys, value \in IndexKeys : index_owner_insert(key, value)
    \/ \E key \in OwnerKeys : index_owner_remove(key)

SpecIndex == InitIndex /\ [][NextIndex]_vars

\* ======================================================================
\* Properties
\* ======================================================================

\* the replay of a byte string as a log under the configured format and the
\* configured initial integrity: [err, ops, integrity]
Load(bytes) ==
    IF cfg.format = "Text"
    THEN load_from_text_file(cfg.kv, bytes, cfg.integrity, cfg.after_read, 0)
    ELSE load_from_bin_file(cfg.kv, bytes, cfg.integrity, cfg.after_read, 0)

\* the number of framed binary blocks from byte position pos on
RECURSIVE BinBlocks(_, _)
BinBlocks(bytes, pos) ==
    LET head == read_bin_block_len(bytes, pos)
    IN IF head.err # NoError \/ head.len = 0 THEN 0
       ELSE 1 + BinBlocks(bytes, head.next + head.len)

\* the number of records of a log: newline-terminated lines, or framed blocks
RecordCount(bytes) ==
    IF cfg.format = "Text"
    THEN Cardinality({i \in 1..Len(bytes) : bytes[i] = NL})
    ELSE BinBlocks(bytes, 1)

\* whether the byte string s ends with the byte string p
EndsWith(s, p) ==
    Len(p) <= Len(s) /\ Slice(s, Len(s) - Len(p) + 1, Len(s)) = p

\* ---------------------------------------------------------------- C1
\* C1 (replay fidelity): whenever open_or_create has returned on a path whose
\* log was written by a sequence S of insert/remove calls on a wrapper since
\* dropped, it has returned a wrapper, and until the next call the map of
\* that wrapper is the map that applying S in order to an empty map gives.
C1_ReplayFidelity ==
    (last.op = "open" /\ history # <<>>) =>
        (last.result = NoError /\ map = ideal)

\* ---------------------------------------------------------------- C2
\* C2 (record per operation): once the wrapper is dropped, the number of
\* records in the log is the number of successful insert calls plus the
\* number of successful remove calls that found their key present.
C2_RecordPerOperation ==
    phase = "Closed" => RecordCount(file) = expected_records

\* C2's case: a log of one record after an insert and a remove of an absent key
C2_Witness ==
    /\ phase = "Closed"
    /\ calls = 2
    /\ expected_records = 1
    /\ RecordCount(file) = 1
    /\ last.op = "drop"

\* ---------------------------------------------------------------- C3
\* C3 (strict FIFO writing): the file is the concatenation of a prefix of the
\* payloads handed to the writer, in the order they were handed over, and the
\* queue holds exactly the remaining ones in that order: nothing is
\* reordered, duplicated, merged or lost.
C3_StrictFifo ==
    LET pending == Payloads(queue)
        written == Len(history) - Len(pending)
    IN /\ written >= 0
       /\ file = Flatten(SubSeq(HistoryPayloads, 1, written))
       /\ pending = SubSeq(HistoryPayloads, written + 1, Len(history))

\* C3's case: two different payloads were handed over and both are on disk
C3_Witness ==
    /\ Len(history) = 2
    /\ history[1].payload # history[2].payload
    /\ queue = <<>>
    /\ file = history[1].payload \o history[2].payload

\* ---------------------------------------------------------------- C4
\* C4 (durability at drop): once the worker has stopped, the lock is released
\* or the drop has returned, no record is left in the queue and every record
\* handed to the writer is in the file; the lock is released only by the
\* stopped worker, and the drop returns only then.
C4_DurabilityAtDrop ==
    /\ (worker = "Exited" \/ ~locked \/ phase = "Closed") =>
          (queue = <<>> /\ file = Flatten(HistoryPayloads))
    /\ phase = "Closed" => (worker = "Exited" /\ ~locked)

\* C4's case: the drop returned while two records had been handed over
C4_Witness ==
    /\ phase = "Closed"
    /\ last.op = "drop"
    /\ Len(history) = 2
    /\ file = Flatten(HistoryPayloads)
    /\ ~locked

\* ---------------------------------------------------------------- C5
\* C5 (insert ordering guarantee): while insert(k, v) is the call that
\* returned Ok last, get(k) is v, the record of this insert is the newest
\* record handed to the writer and is either still in the queue or at the
\* end of the file, and every registered index holds k under f(v).
C5_InsertOrdering ==
    (last.op = "insert" /\ last.result = "Ok") =>
        /\ map_get(map, last.key) = Some(last.value)
        /\ history # <<>>
        /\ history[Len(history)].op = Insert(last.key, last.value)
        /\ LET payload == history[Len(history)].payload
               pending == Payloads(queue)
           IN IF pending # <<>>
              THEN pending[Len(pending)] = payload
              ELSE EndsWith(file, payload)
        /\ \A i \in 1..Len(indexes) :
              last.key \in index_get(indexes[i], make_index_key_callback(last.value))

\* C5's case: an insert that replaced a value of another index key returned
\* Ok on a wrapper with a registered index
C5_Witness ==
    /\ last.op = "insert"
    /\ last.result = "Ok"
    /\ last.old.some
    /\ last.old.v # last.value
    /\ Len(indexes) = 1
    /\ last.key \in index_get(indexes[1], make_index_key_callback(last.value))

\* ---------------------------------------------------------------- C6
\* C6 (state unchanged on SerializeError): a call of insert or remove that
\* returns a serialization error leaves the map, every index, the integrity
\* seed and the writer queue as they were before the call.
C6_UnchangedOnSerializeError ==
    [][(calls' = calls + 1 /\ last'.result = "Err") =>
          UNCHANGED <<map, indexes, integrity, queue>>]_vars

\* ---------------------------------------------------------------- C7
\* C7 (index consistency): for every registered index, every (k, v) of the
\* map has k in the bucket of f(v) and in no other bucket, and every k of a
\* bucket ik is a key of the map with f(map[k]) = ik.
C7_IndexConsistency ==
    \A i \in 1..Len(indexes) :
        /\ \A k \in DOMAIN map :
              \A ik \in DOMAIN indexes[i] \cup {make_index_key_callback(map[k])} :
                  k \in index_get(indexes[i], ik) <=> ik = make_index_key_callback(map[k])
        /\ \A ik \in DOMAIN indexes[i] :
              \A k \in indexes[i][ik] :
                  k \in DOMAIN map /\ make_index_key_callback(map[k]) = ik

\* ---------------------------------------------------------------- C8
\* C8 (no empty bucket): no bucket of a registered index is an empty set.
C8_NoEmptyBucket ==
    \A i \in 1..Len(indexes) : \A ik \in DOMAIN indexes[i] : indexes[i][ik] # {}

\* ---------------------------------------------------------------- C9
\* C9 (integrity round-trip): the records the encoder has produced so far,
\* concatenated, are accepted by the loader under the same configuration and
\* seed and yield the operations that were encoded, in the same order.
C9_IntegrityRoundTrip ==
    LET r == Load(Flatten(HistoryPayloads))
    IN r.err = NoError /\ r.ops = HistoryOps

\* ---------------------------------------------------------------- C10
\* C10 (tamper detection and localization): when open_or_create has returned
\* on a log whose record i was altered in its significant bytes or its tag,
\* it has returned an integrity error whose index is i, and the records
\* delivered to the sink are exactly the records 1..i-1.
C10_TamperDetection ==
    (tampered # 0 /\ last.op = "open") =>
        /\ last.result.kind \in IntegrityErrorKinds
        /\ last.result.line_num = tampered
        /\ Load(file).ops = SubSeq(HistoryOps, 1, tampered - 1)

\* the significant bytes of a record and the bytes of its tag
RecordData(payload) ==
    IF cfg.format = "Text"
    THEN Slice(payload, 1, rfind(payload, SP) - 1)
    ELSE Slice(payload, read_bin_block_len(payload, 1).next,
               Len(payload) - Len(cfg.integrity.prev))

RecordTag(payload) ==
    IF cfg.format = "Text"
    THEN Slice(payload, rfind(payload, SP) + 1, Len(payload) - 1)
    ELSE Slice(payload, Len(payload) - Len(cfg.integrity.prev) + 1, Len(payload))

\* H(prev_tag || H(data)) under the configured chain mode
ChainTag(prev_tag, data) ==
    IF cfg.integrity.kind = "Sha1Chain"
    THEN Sha1(prev_tag \o Sha1(data))
    ELSE Sha256(prev_tag \o Sha256(data))

\* the tag stored with record i of the history, as bytes (the hex digits of
\* a text record decoded), the configured seed for i = 0
TagAt(i) ==
    IF i = 0 THEN cfg.integrity.prev
    ELSE LET tag == RecordTag(history[i].payload)
             val(c) == IF c < 58 THEN c - 48 ELSE c - 87
         IN IF cfg.format = "Text"
            THEN [k \in 1..(Len(tag) \div 2) |->
                     16 * val(tag[2 * k - 1]) + val(tag[2 * k])]
            ELSE tag

\* C11 (chain binding): under a chain mode the tag written with record i is
\* H(tag of record i-1 || H(data of record i)), the seed standing for the
\* tag of record 0; and once a non-final record was deleted, two different
\* adjacent records were swapped or the seed was changed, the next
\* open_or_create fails with a chain error at the first position whose
\* predecessor changed.  The first part is stated of the newest record after
\* each insert or remove: records are only ever appended to the history, so
\* every record is the newest one in the state its operation produced.
C11_ChainBinding ==
    /\ (/\ cfg.integrity.kind \in ChainKinds
        /\ manipulation = "none"
        /\ last.op \in {"insert", "remove"}
        /\ history # <<>>)
          => LET i == Len(history)
                 tag == ChainTag(TagAt(i - 1), RecordData(history[i].payload))
             IN RecordTag(history[i].payload)
                  = IF cfg.format = "Text" THEN hex_encode(tag) ELSE tag
    /\ (manipulation # "none" /\ last.op = "open")
          => /\ last.result.kind \in ChainErrorKinds
             /\ last.result.line_num = tampered

\* a record that is not the last was deleted from a log of two records and
\* the reopen reported the chain error at its position
C11_Witness ==
    /\ manipulation = "delete"
    /\ Len(history) = 2
    /\ last.op = "open"
    /\ last.result.kind \in ChainErrorKinds
    /\ last.result.line_num = 1
    /\ phase = "Closed"

\* C12 (seed continuity across reopen): under a chain mode the seed a live
\* wrapper will stamp the next record with is the tag of the last record of
\* the log, or the configured seed when the log is empty, also after any
\* number of drop / open_or_create cycles; hence a closed log that nobody
\* edited verifies from the configured seed and its replay ends on the tag
\* of its last record.
C12_SeedContinuity ==
    (cfg.integrity.kind \in ChainKinds /\ manipulation = "none")
      => /\ phase \in {"Open", "Dropping"}
              => integrity = [kind |-> cfg.integrity.kind,
                              prev |-> TagAt(Len(history))]
         /\ phase = "Closed"
              => /\ Load(file).err = NoError
                 /\ Load(file).integrity.prev = TagAt(Len(history))

\* a wrapper reopened on a chained log of one record: its seed is the tag of
\* that record and no longer the configured seed
C12_Witness ==
    /\ cfg.integrity.kind \in ChainKinds
    /\ last.op = "open"
    /\ phase = "Open"
    /\ Len(history) = 1
    /\ integrity.prev = TagAt(1)
    /\ integrity.prev # cfg.integrity.prev

\* C13 (crash safety): once the process was killed, the file holds exactly
\* the first n records handed to the writer, for some n, and replaying it
\* under the same configuration succeeds and delivers the first n
\* operations.
C13_CrashSafety ==
    phase = "Killed"
      => \E n \in 0..Len(history) :
            /\ file = Flatten(SubSeq(HistoryPayloads, 1, n))
            /\ Load(file).err = NoError
            /\ Load(file).ops = SubSeq(HistoryOps, 1, n)

\* C14 (exclusive ownership): from the return of open_or_create until the
\* drop of the wrapper has completed, the wrapper holds the exclusive lock,
\* and no second wrapper on the same path is alive.
C14_ExclusiveOwnership ==
    phase \in {"Open", "Dropping"} => (locked /\ other # "Open")

\* C15 (fail-fast locking): an open_or_create on a path whose lock is held
\* never waits for the lock; it returns at once.
C15_FailFastLocking == other # "Waiting"

TakenRecords == Len(history) - Len(Payloads(queue))

\* the bytes of the taken records whose write did not fail, in enqueue order
SurvivingBytes ==
    LET taken == [i \in 1..TakenRecords |-> i]
        kept == SelectSeq(taken, LAMBDA i : \A j \in 1..Len(failed) : failed[j] # i)
    IN Flatten([k \in 1..Len(kept) |-> history[kept[k]].payload])

C18_SinkPanicContained ==
    write_error_callback = "Panics"
      => /\ worker \in {"Running", "Exited"}
         /\ Len(logged) = Len(failed)
         /\ worker = "Exited" => (queue = <<>> /\ TakenRecords = Len(history))
         /\ phase = "Closed" => (worker = "Exited" /\ file = SurvivingBytes)

\* the callback panicked on the first record, the second record was written
\* and the worker stopped on Stop
C18_Witness ==
    /\ write_error_callback = "Panics"
    /\ failed = <<1>>
    /\ logged = <<"panic">>
    /\ Len(history) = 2
    /\ file = history[2].payload
    /\ worker = "Exited"
    /\ phase = "Closed"

\* C19 (atomic apply-and-enqueue): once every call on the shared BTree has
\* returned and the pool has written its jobs, the records of the log are in
\* the order in which the calls changed the map, and replaying the log
\* gives the map held in memory.
C19_AtomicApplyEnqueue ==
    ((\A t \in Threads : threads[t].pc = "idle") /\ queue = <<>>)
      => /\ HistoryOps = applied
         /\ Load(file).err = NoError
         /\ ApplyOps(EmptyMap, Load(file).ops) = map

\* C20 (per-thread program order): the records of one thread's calls are
\* handed to the pool in the order the thread made the calls, and the log
\* replays to the records taken by the pool so far in that same order; so
\* the replay is a serialization that keeps every thread's program order.
C20_ProgramOrder ==
    /\ \A i, j \in 1..Len(history) :
          (i < j /\ history[i].thread = history[j].thread)
             => history[i].seq < history[j].seq
    /\ Load(file).err = NoError
    /\ Load(file).ops = SubSeq(HistoryOps, 1, TakenRecords)

\* one thread inserted two different values, the other thread inserted in
\* between, and all three records are in the file
C20_Witness ==
    /\ Len(history) = 3
    /\ history[1].thread = history[3].thread
    /\ history[2].thread # history[1].thread
    /\ history[1].op # history[3].op
    /\ queue = <<>>
    /\ Load(file).ops = HistoryOps
    /\ \A t \in Threads : threads[t].pc = "idle"

\* the replay of a byte string under a configuration c from its initial
\* integrity: [err, ops, integrity]
LoadUnder(c, bytes) ==
    IF c.format = "Text"
    THEN load_from_text_file(c.kv, bytes, c.integrity, c.after_read, 0)
    ELSE load_from_bin_file(c.kv, bytes, c.integrity, c.after_read, 0)

\* C21 (converter equivalence): after convert has returned Ok, the
\* destination loads without error under dst_cfg, whatever its format and
\* integrity mode, and its records are the transform applied record by
\* record to the records of the source.
C21_ConverterEquivalence ==
    (conv.called /\ conv.result = "Ok")
      => /\ LoadUnder(conv.dst_cfg, conv.dst).err = NoError
         /\ LoadUnder(conv.dst_cfg, conv.dst).ops
              = [i \in 1..Len(Load(conv.src).ops) |->
                    transform(conv.f, Load(conv.src).ops[i])]

\* C22 (converter error typing): when writing a converted record fails,
\* convert returns the write-error variant, when encoding a transformed
\* record fails, it returns the serialization-error variant; neither is
\* reported as a load error of the source.
C22_ConverterErrorTyping ==
    (conv.called /\ conv.write_err # "none")
      => /\ conv.result = conv.write_err
         /\ conv.result # "LoadFileError"

\* C23 (in-place conversion safety): when source and destination are the
\* same path, a convert that returned an error has left the file at the
\* path as it was, and a convert that returned Ok has replaced it, by the
\* rename, with the conversion of every record of the source.
C23_InPlaceSafety ==
    (conv.called /\ conv.file_is_same)
      => /\ conv.result # "Ok" => (file = conv.src /\ ~conv.renamed)
         /\ conv.result = "Ok"
              => /\ conv.renamed
                 /\ file = conv.dst
                 /\ Load(conv.src).err = NoError
                 /\ file = ConvertWrites(conv.f, Load(conv.src).ops,
                                         conv.dst_cfg.integrity,
                                         Len(Load(conv.src).ops))

\* an in-place convert of a log of two records whose second write failed:
\* the temporary file holds one converted record, the source is untouched
C23_Witness ==
    /\ conv.called
    /\ conv.file_is_same
    /\ conv.failure.kind = "WriteToFileError"
    /\ conv.result # "Ok"
    /\ conv.dst # <<>>
    /\ Len(Load(conv.src).ops) = 2
    /\ file = conv.src

\* C24 (indexed load errors): every error of the text loader or the binary
\* loader on a damaged log (a zero-length block, an invalid length prefix
\* and a block cut by the end of the file included) carries the 1-based
\* index of the record that was being processed: the damaged record, or
\* for a misread length prefix a record from it on.
C24_IndexedLoadErrors ==
    (manipulation \in DamageKinds /\ last.op = "open" /\ last.result # NoError)
      => /\ last.result.line_num >= tampered
         /\ manipulation # "bad_prefix" => last.result.line_num = tampered

\* C25 (unterminated trailing line): a text log whose last line lacks its
\* newline makes the replay fail with LastLineWithoutEndLine carrying the
\* 1-based index of that line, after the earlier lines were delivered and
\* without delivering the unterminated one; open_or_create returns that
\* error.
C25_UnterminatedTrailingLine ==
    (cfg.format = "Text" /\ manipulation \in {"cut_last_byte", "cut_after_first_byte"})
      => /\ Load(file).err = Error("LastLineWithoutEndLine", tampered)
         /\ Load(file).ops = SubSeq(HistoryOps, 1, tampered - 1)
         /\ last.op = "open"
              => (last.result = Error("LastLineWithoutEndLine", tampered)
                    /\ phase = "Closed")

\* the second line of a text log lost its newline and the reopen failed on
\* line 2
C25_Witness ==
    /\ cfg.format = "Text"
    /\ manipulation = "cut_last_byte"
    /\ tampered = 2
    /\ last.op = "open"
    /\ last.result = Error("LastLineWithoutEndLine", 2)
    /\ Len(Load(file).ops) = 1

\* C26 (unknown binary opcode): a binary log holding a record whose op byte
\* is neither INSERT nor REMOVE does not replay: open_or_create fails with
\* an error for that record (the decode error, or the integrity error when
\* a tag covers the byte) instead of passing the record over.
C26_UnknownOpcodeFails ==
    (cfg.format = "Bin" /\ manipulation = "bad_opcode" /\ last.op = "open")
      => /\ last.result # NoError
         /\ last.result.line_num = tampered

\* C27 (hook round-trip): with a before-write hook that keeps the framing
\* and the after-read hook that inverts it, a log written through
\* before-write reopens under after-read without error to the map its
\* operations denote.
C27_HookRoundTrip ==
    (cfg.before_write # "None" /\ last.op = "open" /\ history # <<>>)
      => /\ last.result = NoError
         /\ map = ApplyOps(EmptyMap, HistoryOps)

\* C28 (history compaction preserves state): after remove_history has
\* returned Ok, the log replays without error under the configured
\* integrity mode, holds one Insert record per key of the map that was in
\* memory and no other record, and replays to exactly that map.
C28_CompactionPreservesState ==
    (compacted.done /\ compacted.ok)
      => /\ Load(compacted.file).err = NoError
         /\ Len(Load(compacted.file).ops) = Cardinality(DOMAIN compacted.map)
         /\ \A i \in 1..Len(Load(compacted.file).ops) :
               Load(compacted.file).ops[i].op = "Insert"
         /\ ApplyOps(EmptyMap, Load(compacted.file).ops) = compacted.map

\* C29 (lock held across compaction): from the start of the file swap of
\* remove_history to the return of the call, the live log path is locked by
\* this wrapper.
C29_LockAcrossCompaction ==
    (\E t \in Threads : threads[t].pc = "swapping") => locked

\* C30 (index update precedes enqueue): within an insert or remove call on
\* a wrapper with a registered index, the payload is not handed to the
\* writer queue while the update of the indexes is still to come.
C30_IndexBeforeEnqueue ==
    indexes # <<>> => threads[1].pc # "enqueued"

\* C31 (length-prefix round trip): for every block length L >= 1,
\* bin_block_len(L) is one class byte followed by exactly 1, 2, 4 or 8
\* length bytes according to the class, and read_bin_block_len on those
\* bytes consumes exactly that prefix and returns L.
C31_LengthPrefixRoundTrip ==
    (probe.fn = "bin_block_len" /\ probe.step = "read") =>
        LET class == probe.prefix[1]
            width == CASE class = 0 -> 1 [] class = 1 -> 2 [] class = 2 -> 4
                       [] OTHER -> 8
        IN /\ Len(probe.prefix) = 1 + width
           /\ probe.read.err = NoError
           /\ probe.read.len = probe.len
           /\ probe.read.next = Len(probe.prefix) + 1

\* C32 (reserved prefix bits): a binary log holding a record whose class
\* byte has one of its upper 6 bits set is rejected by the loader with the
\* invalid-length-prefix error (WrongFirstByte), and so is the reopen.
C32_ReservedPrefixBits ==
    manipulation = "reserved_bits"
      => /\ Load(file).err.kind = "WrongFirstByte"
         /\ last.op = "open" => last.result.kind = "WrongFirstByte"

\* C33 (binary error kind matches the mode): when the reopen of a binary log
\* with an altered record fails with an integrity error, the error is the
\* one of the configured mode: a CRC error under CRC-32, a SHA-1 chain error
\* under SHA-1 chain, a SHA-256 chain error under SHA-256 chain.
C33_BinErrorKindMatchesMode ==
    (cfg.format = "Bin" /\ tampered # 0 /\ last.op = "open"
       /\ last.result.kind \in IntegrityErrorKinds)
      => last.result.kind = CASE cfg.integrity.kind = "Crc32" -> "Crc32Error"
                              [] cfg.integrity.kind = "Sha1Chain" -> "Sha1ChainError"
                              [] OTHER -> "Sha256ChainError"

\* C34 (writer shutdown terminates): with the worker scheduled, a drop that
\* has sent Stop always completes: every queued payload is written, the
\* worker has exited and unlocked the file, the join has returned.  No
\* payload is left behind Stop by the time the worker has exited, and
\* recv never fails in the running worker.
C34_WriterShutdownTerminates ==
    /\ [](~recv_error)
    /\ [](worker = "Exited" => queue = <<>>)
    /\ (phase = "Dropping")
          ~> (phase = "Closed" /\ worker = "Exited" /\ ~locked /\ queue = <<>>
                /\ file = Flatten(HistoryPayloads))

\* the drop returned after the worker wrote both pending records, found
\* Stop and exited
C34_Witness ==
    /\ phase = "Closed"
    /\ last.op = "drop"
    /\ worker = "Exited"
    /\ queue = <<>>
    /\ Len(history) = MaxOps
    /\ indexes = <<>>
    /\ file = Flatten(HistoryPayloads)

\* record i of the history as the codec encodes it, before any hook, with
\* the integrity state the records before it leave: [line, integrity]
RECURSIVE EncodedRecord(_)
EncodedRecord(i) ==
    LET prev == IF i = 1 THEN cfg.integrity ELSE EncodedRecord(i - 1).integrity
        op == history[i].op
    IN IF cfg.format = "Text"
       THEN IF op.op = "Insert"
            THEN text_file_line_of_insert(cfg.kv, op.key, op.value, prev)
            ELSE file_line_of_remove(cfg.kv, op.key, prev)
       ELSE IF op.op = "Insert"
            THEN bin_file_block_of_insert(cfg.kv, op.key, op.value, prev)
            ELSE bin_file_block_of_remove(cfg.kv, op.key, prev)

\* C35 (hook invoked once per record): with a before-write hook configured,
\* in both formats the payload of every record handed to the writer is the
\* encoded record with the hook applied exactly once, and a step that
\* returns from a remove of an absent key hands nothing to the writer.
C35_HookOncePerRecord ==
    /\ [](cfg.before_write # "None" =>
            \A i \in 1..Len(history) :
                history[i].payload
                  = before_write_callback(cfg.before_write, EncodedRecord(i).line))
    /\ [][(calls' # calls /\ last'.op = "remove" /\ ~last'.old.some)
            => UNCHANGED <<queue, history>>]_vars

\* the errors a loader can return: the variants of LoadFileError, those of
\* IntegrityError within
LoadFileErrorKinds ==
    {"LastLineWithoutEndLine", "FileLineLengthLessThenMinimum", "WrongMinBinBlockLen",
     "WrongFirstByte", "FileError", "DeserializeJsonError", "DeserializeBincodeError",
     "NoLineDefinition", "Interrupted", "InterruptedWithBeforeReadCallback"}
      \cup IntegrityErrorKinds

\* C36 (loader totality): on every byte stream and under every integrity
\* configuration the text loader ends with Ok or with a LoadFileError; a
\* line whose part before the tag is shorter than the 4-byte opcode is an
\* error too, not an out-of-range slice.
C36_LoaderTotality ==
    (probe.fn = "load" /\ probe.step = "done" /\ probe.format = "Text")
      => probe.result.err.kind \in {"Ok"} \cup LoadFileErrorKinds

\* the integrity state the writer is left with after the given operations
RECURSIVE integrity_after(_, _, _, _)
integrity_after(kv, format, ops, integ) ==
    IF ops = <<>> THEN integ
    ELSE LET op == Head(ops)
             rec == IF format = "Text"
                    THEN IF op.op = "Insert"
                         THEN text_file_line_of_insert(kv, op.key, op.value, integ)
                         ELSE file_line_of_remove(kv, op.key, integ)
                    ELSE IF op.op = "Insert"
                         THEN bin_file_block_of_insert(kv, op.key, op.value, integ)
                         ELSE bin_file_block_of_remove(kv, op.key, integ)
         IN integrity_after(kv, format, Tail(ops), rec.integrity)

\* C39 (replay cancellation): when the sink was handed record i of a log
\* and returned the cancellation sentinel, the loader has returned
\* Interrupted, the sink was handed records 1..i and nothing after, and the
\* integrity state is the one after records 1..i.
C39_ReplayCancellation ==
    (probe.fn = "load" /\ probe.step = "done" /\ probe.cancel_at >= 1
       /\ Len(probe.result.ops) >= probe.cancel_at)
      => /\ probe.result.err = Error("Interrupted", 0)
         /\ probe.result.ops = SubSeq(probe.ops, 1, probe.cancel_at)
         /\ probe.result.integrity
              = integrity_after(probe.kv, probe.format,
                                SubSeq(probe.ops, 1, probe.cancel_at), probe.integrity)

\* a binary SHA-256 chain log of two records was replayed and the sink
\* cancelled at the first
C39_Witness ==
    /\ probe.fn = "load"
    /\ probe.step = "done"
    /\ probe.format = "Bin"
    /\ probe.integrity.kind = "Sha256Chain"
    /\ Len(probe.ops) = 2
    /\ probe.cancel_at = 1
    /\ probe.result.err = Error("Interrupted", 0)
    /\ Len(probe.result.ops) = 1
    /\ probe.result.integrity # probe.integrity

\* C37 (chain survives a failed write): under a chain mode the records in
\* the file verify as a chain from the configured seed at every moment,
\* also after the write of a record failed and the worker wrote the records
\* enqueued after it.
C37_ChainSurvivesFailedWrite ==
    (cfg.integrity.kind \in ChainKinds /\ tampered = 0 /\ manipulation = "none")
      => Load(file).err = NoError

\* C38 (index update under concurrent inserts): while threads insert into a
\* shared BTree with a registered index no thread runs into the
\* unreachable!() of BtreeIndex::on_insert, and once all calls have returned
\* every index is consistent with the map: each key of the map is in the
\* bucket of its value's index key and in no other.
C38_IndexUnderConcurrentInserts ==
    /\ \A t \in Threads : threads[t].pc # "panicked"
    /\ (\A t \in Threads : threads[t].pc = "idle")
          => \A i \in 1..Len(indexes) :
                /\ \A k \in DOMAIN map :
                      k \in index_get(indexes[i], make_index_key_callback(map[k]))
                /\ \A ik \in DOMAIN indexes[i] :
                      \A k \in indexes[i][ik] :
                          k \in DOMAIN map /\ make_index_key_callback(map[k]) = ik

\* C40 (index lookup order): the list Index::get(ik) returned holds the
\* keys that were in bucket ik at the call, each exactly once and in
\* ascending order, and is empty when there was no such bucket; it stays
\* that list when the owner map and the index change afterwards.
C40_IndexLookupOrder ==
    (probe.fn = "index" /\ probe.step \in {"got", "changed"})
      => /\ \A i, j \in 1..Len(probe.vec) : i < j => probe.vec[i] < probe.vec[j]
         /\ {probe.vec[i] : i \in 1..Len(probe.vec)}
               = index_get(probe.index_at_call, probe.ik)
         /\ probe.ik \notin DOMAIN probe.index_at_call => probe.vec = <<>>

\* get returned three keys in ascending order, then one of them moved to
\* another bucket; the list held by the caller still names all three
C40_Witness ==
    /\ probe.fn = "index"
    /\ probe.step = "changed"
    /\ Len(probe.vec) = 3
    /\ probe.vec[1] < probe.vec[2]
    /\ probe.vec[2] < probe.vec[3]
    /\ Cardinality(index_get(probe.index, probe.ik)) = 2
====
